---------------------------- MODULE Spec2Model ----------------------------
(***************************************************************************)
(* Report generation & insight pipeline (alicedatalover/reporting).        *)
(*                                                                         *)
(* The module holds one group of variables per component and one           *)
(* specification per component:                                            *)
(*   SpecIdem     app/utils/idempotency.py, IdempotencyManager             *)
(*   SpecTask     app/workers/tasks/report_generation.py, the Celery task  *)
(*   SpecRL       app/utils/rate_limiter.py, RateLimiter (healthy store)   *)
(*   SpecRLFault  the same with store operations that may raise            *)
(*   SpecMiners   app/services/report_service.py, _extract_insights        *)
(*   SpecReport   app/services/report_service.py, generate_report          *)
(*   SpecRecs     app/core/recommendations/generator.py with the Gemini    *)
(*                client and its retry wrapper                             *)
(*   SpecHistory  _generate_and_send_report and the report_history table   *)
(*   SpecBatch    _generate_reports_for_frequency (SpecBatchFair: with the *)
(*                event loop's fairness)                                   *)
(*   SpecEndpoint app/api/v1/reports.py, POST /reports/generate            *)
(*   SpecSelector app/core/insights/selector.py, InsightSelector           *)
(* A specification leaves the variables of the other components alone.     *)
(***************************************************************************)
EXTENDS Integers, Sequences, FiniteSets

VARIABLES
    bl,          \* one client's counters and block flag across endpoints and limiters
    dec,         \* callers of a function wrapped by idempotent_task, and its key
    pm,          \* one call of ProfitMarginMiner.mine
    kv,          \* one call of _calculate_variation_percentage
    pd,          \* report period of one generate_report call (dates, period_range, history dates)
    sel,         \* select_top_insights: the insight list, the scores, the result
    ep,          \* POST /reports/generate: requests of a minute, tasks enqueued
    batch,       \* _generate_reports_for_frequency: semaphore, coroutines, totals
    hs,          \* _generate_and_send_report: position, session, history rows
    rec,         \* generate (recommendations): position, attempts, texts
    gr,          \* generate_report: position, steps called, outcome
    idemStore,   \* Redis keys "idempotency:<task>:<key>": value and remaining TTL
    idw,         \* the callers of is_duplicate: position, arguments, result
    idemGhost,   \* history per key: time since the key was created, its TTL, ...
    idemLast,    \* history: the last call of is_duplicate that returned
    mn,          \* _extract_insights: the miners' outcomes, the loop, its result
    task,        \* submissions of generate_single_report: position, key, retries
    started,     \* history per key: executions of the generation that began
    sent,        \* history per key: notifications delivered
    rlStore,     \* Redis keys "ratelimit:...": counters and the block flag
    req,         \* requests inside check_rate_limit: position and locals
    rlGhost,     \* history: accepted requests per window and per recent tick
    rlLast,      \* history: the last request that left check_rate_limit
    rlActive,    \* the endpoints that receive requests (fixed by Init)
    rlNow        \* ticks since the start

idemVars == <<idemStore, idw, idemGhost, idemLast>>
minerVars == <<mn>>
taskVars == <<task, started, sent>>
rlVars == <<rlStore, req, rlGhost, rlLast, rlActive, rlNow>>
blVars == <<bl>>
decVars == <<dec>>
pmVars == <<pm>>
kvVars == <<kv>>
pdVars == <<pd>>
selVars == <<sel>>
epVars == <<ep>>
batchVars == <<batch>>
hsVars == <<hs>>
recVars == <<rec>>
grVars == <<gr>>

vars == <<bl, dec, pm, kv, pd, sel, ep, batch, hs, rec, gr, idemStore, idw, idemGhost, idemLast, mn, task, started, sent,
          rlStore, req, rlGhost, rlLast, rlActive, rlNow>>

\* What a specification leaves alone.
nonIdemVars == <<minerVars, taskVars, rlVars, grVars, recVars, hsVars, batchVars, epVars, selVars, pdVars, kvVars, pmVars, decVars, blVars>>
nonMinerVars == <<idemVars, taskVars, rlVars, grVars, recVars, hsVars, batchVars, epVars, selVars, pdVars, kvVars, pmVars, decVars, blVars>>
nonTaskVars == <<idemVars, minerVars, rlVars, grVars, recVars, hsVars, batchVars, epVars, selVars, pdVars, kvVars, pmVars, decVars, blVars>>
nonRLVars == <<idemVars, minerVars, taskVars, grVars, recVars, hsVars, batchVars, epVars, selVars, pdVars, kvVars, pmVars, decVars, blVars>>
nonGrVars == <<idemVars, minerVars, taskVars, rlVars, recVars, hsVars, batchVars, epVars, selVars, pdVars, kvVars, pmVars, decVars, blVars>>
nonRecVars == <<idemVars, minerVars, taskVars, rlVars, grVars, hsVars, batchVars, epVars, selVars, pdVars, kvVars, pmVars, decVars, blVars>>
nonHsVars == <<idemVars, minerVars, taskVars, rlVars, recVars, grVars, batchVars, epVars, selVars, pdVars, kvVars, pmVars, decVars, blVars>>
nonBatchVars == <<idemVars, minerVars, taskVars, rlVars, hsVars, recVars, grVars, epVars, selVars, pdVars, kvVars, pmVars, decVars, blVars>>
nonEpVars == <<idemVars, minerVars, taskVars, rlVars, batchVars, hsVars, recVars, grVars, selVars, pdVars, kvVars, pmVars, decVars, blVars>>
nonSelVars == <<idemVars, minerVars, taskVars, rlVars, epVars, batchVars, hsVars, recVars, grVars, pdVars, kvVars, pmVars, decVars, blVars>>
nonPdVars == <<idemVars, minerVars, taskVars, rlVars, selVars, epVars, batchVars, hsVars, recVars, grVars, kvVars, pmVars, decVars, blVars>>
nonKvVars == <<idemVars, minerVars, taskVars, rlVars, pdVars, selVars, epVars, batchVars, hsVars, recVars, grVars, pmVars, decVars, blVars>>
nonPmVars == <<idemVars, minerVars, taskVars, rlVars, kvVars, pdVars, selVars, epVars, batchVars, hsVars, recVars, grVars, decVars, blVars>>
nonDecVars == <<idemVars, minerVars, taskVars, rlVars, pmVars, kvVars, pdVars, selVars, epVars, batchVars, hsVars, recVars, grVars, blVars>>
nonBlVars == <<idemVars, minerVars, taskVars, rlVars, decVars, pmVars, kvVars, pdVars, selVars, epVars, batchVars, hsVars, recVars, grVars>>

(***************************************************************************)
(* IdempotencyManager / SyncIdempotencyManager                             *)
(***************************************************************************)

\* Number of concurrent callers of is_duplicate (workers).
NumWorkers == 2
\* Largest ttl_seconds a caller passes (one tick of SpecIdem is one second).
MaxIdemTtl == 2

Workers == 1..NumWorkers
\* _make_key: prefix ":" task_name ":" idempotency_key; two distinct Redis keys.
IdemKeys == {"generate_report:k1", "generate_report:k2"}
IdemTtls == 1..MaxIdemTtl

IdemAbsent == [val |-> "nil", ttl |-> 0]

\* redis.set(key, "1", ex=ttl, nx=True): the store after the command.
SetNxExIgnoringNx(store, key, ttl) ==
    [store EXCEPT ![key] = [val |-> "1", ttl |-> ttl]]

SetNxEx(store, key, ttl) ==
    IF store[key].val = "nil"
    THEN [store EXCEPT ![key] = [val |-> "1", ttl |-> ttl]]
    ELSE store

\* The command's reply: True when the key was set, None when it existed.
SetNxExReplyAlwaysNew(store, key) == TRUE

SetNxExReply(store, key) == store[key].val = "nil"

\* is_duplicate's result from the outcome of the store command:
\* reply "new" -> False, reply "exists" -> True, the command raised -> False.
IsDuplicateResultFailClosed(reply) ==
    CASE reply = "new" -> "false"
      [] reply = "exists" -> "true"
      [] reply = "error" -> "raise"

IsDuplicateResult(reply) ==
    CASE reply = "new" -> "false"
      [] reply = "exists" -> "true"
      [] reply = "error" -> "false"

IdemIdle == [pc |-> "idle", key |-> "generate_report:k1",
             res |-> "none", absent |-> FALSE, cur |-> FALSE]

IdemGhostInit == [age |-> -1, cttl |-> 0, nFalse |-> 0]

IdemLastInit == [raised |-> FALSE, res |-> "none", inWindow |-> FALSE,
                 seen |-> FALSE, changed |-> FALSE]

\* History: a call that created the key was made less than its ttl ago.
InWindow(g) == g.age >= 0 /\ g.age < g.cttl

IdemInit ==
    /\ idemStore = [k \in IdemKeys |-> IdemAbsent]
    /\ idw = [w \in Workers |-> IdemIdle]
    /\ idemGhost = [k \in IdemKeys |-> IdemGhostInit]
    /\ idemLast = IdemLastInit

\* A worker enters is_duplicate(task_name, idempotency_key, ttl_seconds) and
\* builds the Redis key; the store command is not issued yet.  (ttl_seconds
\* is read only by the store command, so it is drawn there.)
IsDuplicateCall(w, k) ==
    /\ idw[w].pc = "idle"
    /\ idw' = [idw EXCEPT ![w] = [pc |-> "set", key |-> k,
                                  res |-> "none",
                                  absent |-> (idemStore[k].val = "nil"),
                                  cur |-> FALSE]]
    /\ UNCHANGED <<idemStore, idemGhost, idemLast>>
    /\ UNCHANGED nonIdemVars

\* The store executes SET key "1" EX ttl NX atomically and the call returns.
IsDuplicateSet(w, ttl) ==
    /\ idw[w].pc = "set"
    /\ LET k     == idw[w].key
           new   == SetNxExReply(idemStore, k)
           res   == IsDuplicateResult(IF new THEN "new" ELSE "exists")
           after == SetNxEx(idemStore, k, ttl)
           g     == idemGhost[k]
       IN /\ idemStore' = after
          /\ idw' = [idw EXCEPT ![w].pc = "returned", ![w].res = res,
                                ![w].cur = TRUE]
          /\ idemLast' = [raised |-> FALSE, res |-> res,
                          inWindow |-> InWindow(g), seen |-> (g.age >= 0),
                          changed |-> (after # idemStore)]
          /\ idemGhost' = [idemGhost EXCEPT ![k] =
                 [age    |-> IF res = "false" THEN 0 ELSE g.age,
                  cttl   |-> IF res = "false" THEN ttl ELSE g.cttl,
                  nFalse |-> IF res = "false" /\ g.nFalse < 2
                             THEN g.nFalse + 1 ELSE g.nFalse]]
    /\ UNCHANGED nonIdemVars

\* The store after a command that raised: the command was not applied.
SetNxExFailed(store) == store

\* The store command raises (store unreachable): nothing is written, the
\* except branch logs and the call returns.
IsDuplicateStoreError(w) ==
    /\ idw[w].pc = "set"
    /\ LET k   == idw[w].key
           res == IsDuplicateResult("error")
       IN /\ idw' = [idw EXCEPT ![w].pc = "returned", ![w].res = res]
          /\ idemLast' = [raised |-> TRUE, res |-> res,
                          inWindow |-> InWindow(idemGhost[k]),
                          seen |-> (idemGhost[k].age >= 0),
                          changed |-> (SetNxExFailed(idemStore) # idemStore)]
          /\ idemStore' = SetNxExFailed(idemStore)
          /\ UNCHANGED idemGhost
    /\ UNCHANGED nonIdemVars

\* The caller takes the result and is free for another call.
IsDuplicateDone(w) ==
    /\ idw[w].pc = "returned"
    /\ idw' = [idw EXCEPT ![w] = IdemIdle]
    /\ UNCHANGED <<idemStore, idemGhost, idemLast>>
    /\ UNCHANGED nonIdemVars

\* One second passes: every TTL counts down and a key whose TTL reaches 0 is
\* deleted by the store.
IdemTick ==
    /\ idemStore' = [k \in IdemKeys |->
          IF idemStore[k].val = "nil" THEN IdemAbsent
          ELSE IF idemStore[k].ttl = 1 THEN IdemAbsent
          ELSE [idemStore[k] EXCEPT !.ttl = @ - 1]]
    /\ idemGhost' = [k \in IdemKeys |->
          [age    |-> IF idemGhost[k].age >= 0 /\ idemGhost[k].age < MaxIdemTtl
                      THEN idemGhost[k].age + 1 ELSE idemGhost[k].age,
           cttl   |-> idemGhost[k].cttl,
           nFalse |-> IF idemStore[k].val # "nil" /\ idemStore[k].ttl = 1
                      THEN 0 ELSE idemGhost[k].nFalse]]
    /\ idw' = [w \in Workers |->
          IF idemStore[idw[w].key].val # "nil" /\ idemStore[idw[w].key].ttl = 1
          THEN [idw[w] EXCEPT !.cur = FALSE] ELSE idw[w]]
    /\ UNCHANGED idemLast
    /\ UNCHANGED nonIdemVars

IdemNext ==
    \/ \E w \in Workers, k \in IdemKeys : IsDuplicateCall(w, k)
    \/ \E w \in Workers, ttl \in IdemTtls : IsDuplicateSet(w, ttl)
    \/ \E w \in Workers : IsDuplicateStoreError(w)
    \/ \E w \in Workers : IsDuplicateDone(w)
    \/ IdemTick

\* The component at rest, for the specifications of the other components.
IdemParked ==
    /\ idemStore = [k \in IdemKeys |-> IdemAbsent]
    /\ idw = [w \in Workers |-> IdemIdle]
    /\ idemGhost = [k \in IdemKeys |-> IdemGhostInit]
    /\ idemLast = IdemLastInit

\* C2: on a healthy store is_duplicate returns False on the first call for a
\* key, True on every further call made less than ttl_seconds after the call
\* that created the key, and False again on the first call after the key
\* has expired.  (idemLast.inWindow is measured by the history clock, not
\* read from the store.)
C2_FalseThenTrueUntilExpiry ==
    (idemLast.res # "none" /\ ~idemLast.raised) =>
        /\ idemLast.res \in {"true", "false"}
        /\ (idemLast.res = "true") <=> idemLast.inWindow

\* C2 witness: a call has just returned False for a key that was created
\* before and has expired, while another caller still holds the True it got
\* inside the window.
C2_Witness ==
    /\ idemLast.res = "false" /\ ~idemLast.raised /\ idemLast.seen
    /\ \E w \in Workers : idw[w].pc = "returned" /\ idw[w].res = "true"

\* C3: of the calls that reach the (answering) store for one key during one
\* lifetime of that key, starting with no key stored, exactly one returns
\* False and all the others return True, whatever the order in which the
\* store serves them.
C3_ExactlyOneFirst ==
    \A k \in IdemKeys :
        /\ idemGhost[k].nFalse = (IF idemStore[k].val = "nil" THEN 0 ELSE 1)
        /\ \A w1, w2 \in Workers :
              ( /\ w1 # w2
                /\ idw[w1].pc = "returned" /\ idw[w2].pc = "returned"
                /\ idw[w1].cur /\ idw[w2].cur
                /\ idw[w1].key = k /\ idw[w2].key = k )
              => (idw[w1].res = "true" \/ idw[w2].res = "true")

\* C3 witness: two workers called is_duplicate for the same key while no key
\* was stored, both were served, one got False and the other True.
C3_Witness ==
    \E w1, w2 \in Workers :
        /\ w1 # w2 /\ idw[w1].key = idw[w2].key
        /\ idw[w1].pc = "returned" /\ idw[w2].pc = "returned"
        /\ idw[w1].absent /\ idw[w2].absent /\ idw[w1].cur /\ idw[w2].cur
        /\ idw[w1].res = "false" /\ idw[w2].res = "true"

\* C4: when the store command raises, is_duplicate returns False, writes
\* nothing to the store and does not raise.
C4_FailOpen ==
    idemLast.raised => (idemLast.res = "false" /\ ~idemLast.changed)

\* C4 witness: the store raised for a call on a key that is stored (inside
\* its window): the call still answered False.
C4_Witness ==
    idemLast.raised /\ idemLast.inWindow /\ idemLast.res = "false"

(***************************************************************************)
(* ReportService._extract_insights                                         *)
(***************************************************************************)

\* self.insight_miners, in registration order.
Miners == <<"StockAlert", "ChurnRisk", "Seasonality", "ProfitMargin">>
\* What one miner.mine(...) call does: returns an InsightModel (truthy),
\* returns None, or raises an Exception.
MinerOutcomes == {"insight", "none", "exception"}

\* The insights list after one miner call: appended only for a truthy result.
Collect(insights, miner, outcome) ==
    CASE outcome = "insight" -> Append(insights, miner)
      [] outcome = "none" -> insights
      [] outcome = "exception" -> insights

\* Where the loop goes after one miner call: the except branch logs and
\* continues with the next miner.
AfterMinerAbortOnError(outcome) ==
    IF outcome = "exception" THEN "raised" ELSE "loop"

AfterMiner(outcome) == "loop"

MinersParkedValue ==
    [pc |-> "parked", outcome |-> [i \in 1..Len(Miners) |-> "none"],
     idx |-> 1, insights |-> << >>, invoked |-> << >>]

MinersParked == mn = MinersParkedValue

\* A call of _extract_insights: insights = [] and the loop at the first miner.
\* The outcome of each miner's mine() is drawn here.
MinersInit ==
    \E o \in [1..Len(Miners) -> MinerOutcomes] :
        mn = [pc |-> "loop", outcome |-> o, idx |-> 1,
              insights |-> << >>, invoked |-> << >>]

\* One iteration of "for miner in self.insight_miners": try mine(), append a
\* truthy insight, on Exception log and continue.
MineOne ==
    /\ mn.pc = "loop"
    /\ mn.idx <= Len(Miners)
    /\ LET o == mn.outcome[mn.idx]
       IN mn' = [mn EXCEPT !.insights = Collect(@, Miners[mn.idx], o),
                           !.invoked = Append(@, Miners[mn.idx]),
                           !.idx = @ + 1,
                           !.pc = AfterMiner(o)]
    /\ UNCHANGED nonMinerVars

\* The loop is over: log and return insights.
ExtractInsightsReturn ==
    /\ mn.pc = "loop"
    /\ mn.idx > Len(Miners)
    /\ mn' = [mn EXCEPT !.pc = "returned"]
    /\ UNCHANGED nonMinerVars

MinersNext ==
    \/ MineOne
    \/ ExtractInsightsReturn

\* The miners of index i..Len(Miners) that returned an insight, in order.
RECURSIVE InsightsFrom(_, _)
InsightsFrom(o, i) ==
    IF i > Len(Miners) THEN << >>
    ELSE IF o[i] = "insight" THEN <<Miners[i]>> \o InsightsFrom(o, i + 1)
    ELSE InsightsFrom(o, i + 1)

\* C10: whatever each miner does (insight, None, exception), _extract_insights
\* calls all four miners in registration order, lets no miner exception out,
\* and returns exactly the insights of the miners that returned one, in that
\* order (so its length is the number of miners that returned non-null).
C10_MinerIsolation ==
    /\ mn.pc # "raised"
    /\ mn.pc = "returned" =>
         /\ mn.invoked = Miners
         /\ mn.insights = InsightsFrom(mn.outcome, 1)
         /\ Len(mn.insights) =
              Cardinality({i \in 1..Len(Miners) : mn.outcome[i] = "insight"})

\* C10 witness: the first miner raised, a later one returned an insight, the
\* call returned with that insight.
C10_Witness ==
    /\ mn.pc = "returned"
    /\ mn.outcome[1] = "exception"
    /\ mn.outcome[2] = "insight"
    /\ mn.outcome[4] = "exception"
    /\ Len(mn.insights) >= 1

(***************************************************************************)
(* generate_single_report (Celery task) and _generate_and_send_report      *)
(***************************************************************************)

\* Number of submissions of the task (duplicates of one another or not).
NumSubmissions == 2
\* @celery_app.task(max_retries=2) of generate_single_report.
MaxRetries == 2

Submissions == 1..NumSubmissions
\* (company_id, frequency, end_date) of a submission.
TaskKeys == {"company_1|monthly|2025-07-31", "company_2|monthly|2025-07-31"}

TaskIdle == [pc |-> "none", key |-> "company_1|monthly|2025-07-31",
             retries |-> 0, result |-> "none", delivered |-> FALSE]

TaskInit ==
    /\ task = [t \in Submissions |-> TaskIdle]
    /\ started = [k \in TaskKeys |-> 0]
    /\ sent = [k \in TaskKeys |-> 0]

TaskParked == TaskInit

\* generate_single_report.delay(company_id, frequency, end_date, ...).
SubmitTask(t, k) ==
    /\ task[t].pc = "none"
    /\ task' = [task EXCEPT ![t].pc = "queued", ![t].key = k]
    /\ UNCHANGED <<started, sent>>
    /\ UNCHANGED nonTaskVars

\* What the task does with a submission before it generates.  The check
\* against SyncIdempotencyManager.is_duplicate is commented out in the task
\* body ("IDEMPOTENCE CHECK DESACTIVE"): every submission goes on to generate.
Entry(alreadyStarted) == "generate"

\* A worker takes the submission: the task body runs up to the call of
\* _generate_and_send_report.
StartTask(t) ==
    /\ task[t].pc = "queued"
    /\ LET k == task[t].key
       IN IF Entry(started[k]) = "skipped"
          THEN /\ task' = [task EXCEPT ![t].pc = "done", ![t].result = "skipped"]
               /\ UNCHANGED started
          ELSE /\ task' = [task EXCEPT ![t].pc = "generating",
                                       ![t].delivered = FALSE]
               /\ started' = [started EXCEPT ![k] = @ + 1]
    /\ UNCHANGED sent
    /\ UNCHANGED nonTaskVars

\* except Exception in the task body: raise self.retry(exc=e); after
\* max_retries retries the task fails with the error.
RetryOrFail(t) ==
    IF task[t].retries < MaxRetries
    THEN [task EXCEPT ![t].pc = "queued", ![t].retries = @ + 1]
    ELSE [task EXCEPT ![t].pc = "done", ![t].result = "error"]

\* report_service.generate_report (and the recipient lookup) returns or raises.
GenerateReport(t, ok) ==
    /\ task[t].pc = "generating"
    /\ task' = IF ok THEN [task EXCEPT ![t].pc = "sending"] ELSE RetryOrFail(t)
    /\ UNCHANGED <<started, sent>>
    /\ UNCHANGED nonTaskVars

\* notification_service.send_report returns True (delivered) or False.
SendReport(t, delivered) ==
    /\ task[t].pc = "sending"
    /\ task' = [task EXCEPT ![t].pc = "saving", ![t].delivered = delivered]
    /\ sent' = IF delivered THEN [sent EXCEPT ![task[t].key] = @ + 1] ELSE sent
    /\ UNCHANGED started
    /\ UNCHANGED nonTaskVars

\* _save_report_history returns, and the task returns the result, or it
\* raises, and the task retries.
SaveHistory(t, ok) ==
    /\ task[t].pc = "saving"
    /\ task' = IF ok
               THEN [task EXCEPT ![t].pc = "done",
                        ![t].result = IF task[t].delivered THEN "success"
                                      ELSE "failed"]
               ELSE RetryOrFail(t)
    /\ UNCHANGED <<started, sent>>
    /\ UNCHANGED nonTaskVars

TaskNext ==
    \/ \E t \in Submissions, k \in TaskKeys : SubmitTask(t, k)
    \/ \E t \in Submissions : StartTask(t)
    \/ \E t \in Submissions, ok \in BOOLEAN : GenerateReport(t, ok)
    \/ \E t \in Submissions, d \in BOOLEAN : SendReport(t, d)
    \/ \E t \in Submissions, ok \in BOOLEAN : SaveHistory(t, ok)

\* C1 (the claim as stated; all submissions of a run fall inside the one-hour
\* window): for one (company_id, frequency, end_date) only the first
\* submission runs the generation, every later one ends "skipped", and at
\* most one notification is sent.
C1_OnlyFirstSubmissionRuns ==
    \A k \in TaskKeys :
        /\ started[k] <= 1
        /\ sent[k] <= 1
        /\ \A t1, t2 \in Submissions :
              ( /\ t1 # t2 /\ task[t1].key = k /\ task[t2].key = k
                /\ task[t1].pc = "done" /\ task[t2].pc = "done" )
              => (task[t1].result = "skipped" \/ task[t2].result = "skipped")

(***************************************************************************)
(* RateLimiter.check_rate_limit                                            *)
(* One tick of SpecRL is 30 seconds; one client fingerprint.               *)
(***************************************************************************)

\* RateLimiter(requests_per_minute=2, requests_per_hour=3): a small instance.
RequestsPerMinute == 2
RequestsPerHour == 3
\* The model stops incrementing a counter at this value.
MaxCount == 4
\* The model stops the clock after this many ticks.
MaxTicks == 14
\* redis_client.expire(minute_key, 60): 2 ticks.
MinuteTtl == 2
\* redis_client.expire(hour_key, 3600): 120 ticks.
HourTtl == 120
\* block_duration_seconds = 300: 10 ticks.
BlockTtl == 10

\* The requests that can be inside check_rate_limit at the same time.
Reqs == {"r1", "r2"}
\* endpoint = f"{request.method}:{request.url.path}"
Endpoints == {"POST:/reports/generate", "GET:/reports/history"}

\* limit_per_minute = custom_limit if custom_limit else self.requests_per_minute
\* (no caller passes custom_limit).
LimitPerMinute(e) == RequestsPerMinute
LimitPerHour(e) == RequestsPerHour

RLAbsent == [val |-> 0, hasTtl |-> FALSE, ttl |-> 0]

\* redis_client.incr(key): creates the key at 1 with no expiry, or adds 1 and
\* keeps the expiry the key has.
Incr(entry) == [entry EXCEPT !.val = @ + 1]

\* redis_client.expire(key, seconds): sets the expiry of an existing key.
Expire(entry, ttl) ==
    IF entry.val = 0 THEN entry ELSE [entry EXCEPT !.hasTtl = TRUE, !.ttl = ttl]

\* redis_client.setex(block_key, self.block_duration_seconds, "blocked").
SetexBlocked(ttl) == [val |-> 1, hasTtl |-> TRUE, ttl |-> ttl]

\* One tick for one key: the expiry counts down; at 0 the key is deleted.
Aged(entry) ==
    IF entry.val # 0 /\ entry.hasTtl
    THEN IF entry.ttl = 1 THEN RLAbsent ELSE [entry EXCEPT !.ttl = @ - 1]
    ELSE entry

Expiring(entry) == entry.val # 0 /\ entry.hasTtl /\ entry.ttl = 1

\* is_blocked = await redis_client.get(block_key); if is_blocked: raise 429.
IsBlockedNeverChecked(block) == FALSE

IsBlocked(block) == block.val # 0

\* After the increments: "if minute_count == 1: expire", "if hour_count == 1:
\* expire", then the limits: over the minute limit -> block and 429; over the
\* hour limit -> 429; else the request passes.
DecideMinuteOffByOne(mc, hc, e) ==
    IF mc >= LimitPerMinute(e) THEN "setex"
    ELSE IF hc > LimitPerHour(e) THEN "429hour"
    ELSE "ok"

DecideHourBlocks(mc, hc, e) ==
    IF mc > LimitPerMinute(e) THEN "setex"
    ELSE IF hc > LimitPerHour(e) THEN "setex"
    ELSE "ok"

Decide(mc, hc, e) ==
    IF mc > LimitPerMinute(e) THEN "setex"
    ELSE IF hc > LimitPerHour(e) THEN "429hour"
    ELSE "ok"

AfterIncrements(mc, hc, e) ==
    IF mc = 1 THEN "expMin" ELSE IF hc = 1 THEN "expHour" ELSE Decide(mc, hc, e)

AfterExpireMinute(mc, hc, e) ==
    IF hc = 1 THEN "expHour" ELSE Decide(mc, hc, e)

ReqIdle == [pc |-> "idle", e |-> "POST:/reports/generate", mc |-> 0, hc |-> 0,
            cur |-> FALSE, gate |-> FALSE]

RLStoreInit ==
    [minute |-> [e \in Endpoints |-> RLAbsent],
     hour   |-> [e \in Endpoints |-> RLAbsent],
     block  |-> RLAbsent]

RLGhostInit ==
    [acc    |-> [e \in Endpoints |-> 0],
     done   |-> [e \in Endpoints |-> 0],
     recent |-> [e \in Endpoints |-> [i \in 1..MinuteTtl |-> 0]],
     since429 |-> -1]

RLLastInit == [out |-> "none", mcOver |-> FALSE, hcOver |-> FALSE,
               gate |-> FALSE, setBlock |-> FALSE, minuteAbsent |-> FALSE]

RLInit ==
    /\ rlStore = RLStoreInit
    /\ req = [p \in Reqs |-> ReqIdle]
    /\ rlGhost = RLGhostInit
    /\ rlLast = RLLastInit
    /\ rlActive = {"POST:/reports/generate"}
    /\ rlNow = 0

RLParked ==
    /\ rlStore = RLStoreInit
    /\ req = [p \in Reqs |-> ReqIdle]
    /\ rlGhost = RLGhostInit
    /\ rlLast = RLLastInit
    /\ rlActive = {}
    /\ rlNow = 0

\* The request leaves check_rate_limit: out is "ok" (it returns None) or the
\* reason of the HTTPException 429 (or "500" for an exception of the store).
\* r is the request with the locals it leaves with, store the store it leaves.
Leave(p, r, out, store) ==
    /\ req' = [req EXCEPT ![p] = ReqIdle]
    /\ rlLast' = [out |-> out,
                  mcOver |-> r.mc > LimitPerMinute(r.e),
                  hcOver |-> r.hc > LimitPerHour(r.e),
                  gate |-> r.gate,
                  setBlock |-> (store.block # rlStore.block),
                  minuteAbsent |-> (rlStore.minute[r.e].val = 0)]
    /\ rlGhost' =
         [acc  |-> [rlGhost.acc EXCEPT ![r.e] =
                      IF r.cur /\ out = "ok" THEN @ + 1 ELSE @],
          done |-> [rlGhost.done EXCEPT ![r.e] =
                      IF /\ r.cur /\ out \in {"ok", "429minute", "429hour"}
                         /\ r.mc <= LimitPerMinute(r.e)
                         /\ r.hc <= LimitPerHour(r.e)
                      THEN @ + 1 ELSE @],
          recent |-> [rlGhost.recent EXCEPT ![r.e][1] =
                      IF out = "ok" THEN @ + 1 ELSE @],
          since429 |-> IF out = "429minute" THEN 0 ELSE rlGhost.since429]

\* The request goes on to its next store command, or leaves.
Proceed(p, r, next, store) ==
    IF next \in {"ok", "429hour"}
    THEN Leave(p, r, next, store)
    ELSE /\ req' = [req EXCEPT ![p] = [r EXCEPT !.pc = next]]
         /\ UNCHANGED <<rlGhost, rlLast>>

\* A request for endpoint e enters check_rate_limit and reads the block flag:
\* a blocked client gets 429 at once, the others go on to the counters.
GetBlock(p, e) ==
    /\ req[p].pc = "idle"
    /\ e \in rlActive
    /\ LET r == [ReqIdle EXCEPT !.e = e, !.gate = (rlStore.block.val # 0)]
       IN IF IsBlocked(rlStore.block)
          THEN Leave(p, r, "429blocked", rlStore)
          ELSE /\ req' = [req EXCEPT ![p] = [r EXCEPT !.pc = "incrMin"]]
               /\ UNCHANGED <<rlGhost, rlLast>>
    /\ UNCHANGED <<rlStore, rlActive, rlNow>>
    /\ UNCHANGED nonRLVars

\* minute_count = await redis_client.incr(minute_key)
IncrMinute(p) ==
    /\ req[p].pc = "incrMin"
    /\ rlStore.minute[req[p].e].val < MaxCount
    /\ LET e == req[p].e
           after == Incr(rlStore.minute[e])
       IN /\ rlStore' = [rlStore EXCEPT !.minute[e] = after]
          /\ req' = [req EXCEPT ![p].pc = "incrHour", ![p].mc = after.val,
                                ![p].cur = TRUE]
    /\ UNCHANGED <<rlGhost, rlLast, rlActive, rlNow>>
    /\ UNCHANGED nonRLVars

\* hour_count = await redis_client.incr(hour_key), then the code up to the
\* next store command.
IncrHour(p) ==
    /\ req[p].pc = "incrHour"
    /\ rlStore.hour[req[p].e].val < MaxCount
    /\ LET e == req[p].e
           after == Incr(rlStore.hour[e])
           store == [rlStore EXCEPT !.hour[e] = after]
           r == [req[p] EXCEPT !.hc = after.val]
       IN /\ rlStore' = store
          /\ Proceed(p, r, AfterIncrements(r.mc, r.hc, e), store)
    /\ UNCHANGED <<rlActive, rlNow>>
    /\ UNCHANGED nonRLVars

\* await redis_client.expire(minute_key, 60), then on to the next command.
ExpireMinute(p) ==
    /\ req[p].pc = "expMin"
    /\ LET e == req[p].e
           store == [rlStore EXCEPT !.minute[e] = Expire(@, MinuteTtl)]
       IN /\ rlStore' = store
          /\ Proceed(p, req[p], AfterExpireMinute(req[p].mc, req[p].hc, e), store)
    /\ UNCHANGED <<rlActive, rlNow>>
    /\ UNCHANGED nonRLVars

\* await redis_client.expire(hour_key, 3600), then the limits.
ExpireHour(p) ==
    /\ req[p].pc = "expHour"
    /\ LET e == req[p].e
           store == [rlStore EXCEPT !.hour[e] = Expire(@, HourTtl)]
       IN /\ rlStore' = store
          /\ Proceed(p, req[p], Decide(req[p].mc, req[p].hc, e), store)
    /\ UNCHANGED <<rlActive, rlNow>>
    /\ UNCHANGED nonRLVars

\* Over the minute limit: await redis_client.setex(block_key, ...), then 429.
SetexBlock(p) ==
    /\ req[p].pc = "setex"
    /\ LET store == [rlStore EXCEPT !.block = SetexBlocked(BlockTtl)]
       IN /\ rlStore' = store
          /\ Leave(p, req[p], "429minute", store)
    /\ UNCHANGED <<rlActive, rlNow>>
    /\ UNCHANGED nonRLVars

\* A request stops between its increment of the minute counter and the
\* expire calls: the store command it is about to issue raises, or the
\* request is cancelled there.  check_rate_limit catches nothing: the request
\* ends and the commands it had left are never issued.
StoreFault(p) ==
    /\ req[p].pc \in {"incrHour", "expMin", "expHour"}
    /\ Leave(p, [req[p] EXCEPT !.cur = FALSE], "500", rlStore)
    /\ UNCHANGED <<rlStore, rlActive, rlNow>>
    /\ UNCHANGED nonRLVars

\* 30 seconds pass: expiries count down, expired keys are deleted.
RLTick ==
    /\ rlNow < MaxTicks
    /\ rlNow' = rlNow + 1
    /\ rlStore' = [minute |-> [e \in Endpoints |-> Aged(rlStore.minute[e])],
                   hour   |-> [e \in Endpoints |-> Aged(rlStore.hour[e])],
                   block  |-> Aged(rlStore.block)]
    /\ req' = [p \in Reqs |->
                 IF Expiring(rlStore.minute[req[p].e])
                 THEN [req[p] EXCEPT !.cur = FALSE] ELSE req[p]]
    /\ rlGhost' =
         [acc  |-> [e \in Endpoints |->
                      IF Expiring(rlStore.minute[e]) THEN 0 ELSE rlGhost.acc[e]],
          done |-> [e \in Endpoints |->
                      IF Expiring(rlStore.minute[e]) THEN 0 ELSE rlGhost.done[e]],
          recent |-> [e \in Endpoints |-> [i \in 1..MinuteTtl |->
                      IF i = 1 THEN 0 ELSE rlGhost.recent[e][i - 1]]],
          since429 |-> IF rlGhost.since429 >= 0 /\ rlGhost.since429 < BlockTtl
                       THEN rlGhost.since429 + 1 ELSE rlGhost.since429]
    /\ UNCHANGED <<rlLast, rlActive>>
    /\ UNCHANGED nonRLVars

RLNext ==
    \/ \E p \in Reqs, e \in Endpoints : GetBlock(p, e)
    \/ \E p \in Reqs : IncrMinute(p)
    \/ \E p \in Reqs : IncrHour(p)
    \/ \E p \in Reqs : ExpireMinute(p)
    \/ \E p \in Reqs : ExpireHour(p)
    \/ \E p \in Reqs : SetexBlock(p)
    \/ RLTick

RLFaultNext ==
    \/ RLNext
    \/ \E p \in Reqs : StoreFault(p)

\* A request left check_rate_limit after both increments were served.
Counted == rlLast.out \in {"ok", "429minute", "429hour"}

\* C5: inside one minute-counter window of one client and endpoint, client
\* not blocked and hour limit not reached, the requests that get the first
\* LimitPerMinute increments are accepted, no other request of the window is,
\* and a request past the limit gets 429 -- whatever the interleaving:
\* the increments hand out distinct ordinals.
C5_FirstCapAccepted ==
    /\ (Counted /\ ~rlLast.hcOver) =>
          /\ (rlLast.out = "ok") <=> ~rlLast.mcOver
          /\ rlLast.mcOver => rlLast.out = "429minute"
    /\ \A e \in Endpoints :
          /\ rlGhost.acc[e] = rlGhost.done[e]
          /\ rlGhost.acc[e] <= LimitPerMinute(e)
    /\ \A p, q \in Reqs :
          ( /\ p # q /\ req[p].e = req[q].e
            /\ req[p].cur /\ req[q].cur ) => req[p].mc # req[q].mc

\* C5 witness: LimitPerMinute requests of the window were accepted and the
\* next one has just been rejected for the minute limit.
C5_Witness ==
    /\ rlLast.out = "429minute" /\ rlLast.mcOver /\ ~rlLast.hcOver
    /\ \E e \in rlActive : rlGhost.acc[e] = LimitPerMinute(e)

\* C6: once a request was rejected for exceeding the minute limit, the block
\* flag exists for the following BlockTtl ticks (block_duration_seconds), and
\* a request that finds the flag is rejected with 429 at once, whatever the
\* counters hold: no request that found the flag gets to the counters.
C6_BlockedWhileFlag ==
    /\ (rlGhost.since429 >= 0 /\ rlGhost.since429 < BlockTtl) =>
          /\ rlStore.block.val # 0
          /\ rlStore.block.ttl >= BlockTtl - rlGhost.since429
    /\ rlLast.gate => rlLast.out = "429blocked"
    /\ \A p \in Reqs : ~req[p].gate

\* C6 witness: a request has just been rejected by the flag although the
\* minute counter of its endpoint has expired.
C6_Witness ==
    /\ rlLast.out = "429blocked" /\ rlLast.gate /\ rlLast.minuteAbsent
    /\ rlStore.block.val # 0
    /\ rlGhost.since429 >= MinuteTtl

\* C7: a request whose increment takes the hour counter over LimitPerHour
\* while its minute count is within LimitPerMinute is rejected with 429 and
\* does not write the block flag.
C7_HourLimitDoesNotBlock ==
    /\ (Counted /\ ~rlLast.mcOver /\ rlLast.hcOver) =>
          (rlLast.out = "429hour" /\ ~rlLast.setBlock)
    /\ rlLast.out = "429hour" =>
          (rlLast.hcOver /\ ~rlLast.mcOver /\ ~rlLast.setBlock)

\* C7 witness: a request has just been rejected for the hour limit and the
\* client has never been blocked.
C7_Witness ==
    /\ rlLast.out = "429hour"
    /\ rlStore.block.val = 0
    /\ rlGhost.since429 = -1

RECURSIVE SumTo(_, _)
SumTo(f, n) == IF n = 0 THEN 0 ELSE f[n] + SumTo(f, n - 1)

\* C8 (the claim as stated, for the minute limit): the requests accepted
\* during the last MinuteTtl ticks (a span shorter than 60 seconds) are never
\* more than LimitPerMinute.
C8_SlidingWindow ==
    \A e \in Endpoints : SumTo(rlGhost.recent[e], MinuteTtl) <= LimitPerMinute(e)

\* C9 (the claim as stated, for the states where no request is inside
\* check_rate_limit): every counter that exists carries an expiry.
C9_CountersCarryExpiry ==
    (\A p \in Reqs : req[p].pc = "idle") =>
        \A e \in Endpoints :
            /\ rlStore.minute[e].val # 0 => rlStore.minute[e].hasTtl
            /\ rlStore.hour[e].val # 0 => rlStore.hour[e].hasTtl

(***************************************************************************)
(* ReportService.generate_report                                           *)
(***************************************************************************)

\* ReportFrequency.
Frequencies == {"weekly", "monthly", "quarterly"}
\* company_id values of the calls.
Companies == {"company_1", "company_2"}
\* settings.MAX_INSIGHTS_PER_REPORT.
MaxInsightsPerReport == 3

GrParkedValue ==
    [pc |-> "parked", company |-> "company_1", freq |-> "weekly",
     endGiven |-> FALSE, calls |-> {}, failedAt |-> "none", found |-> 0,
     top |-> 0, result |-> "none"]

GrParked == gr = GrParkedValue

\* The call generate_report(company_id, frequency, end_date).
GrInit ==
    \E c \in Companies, f \in Frequencies, g \in BOOLEAN :
        gr = [GrParkedValue EXCEPT !.pc = "company", !.company = c,
                                   !.freq = f, !.endGiven = g]

\* except Exception as e: logger.error(...); raise -- whatever step of the
\* try block raised, nothing after it runs and the error goes to the caller.
OnStepErrorSwallowKpis(step) == IF step = "kpis" THEN "compare" ELSE "raised"

OnStepError(step) == "raised"

\* One awaited step of the try block: it returns and the next step follows,
\* or it raises.
GrStep(step, ok, next) ==
    [gr EXCEPT !.pc = IF ok THEN next ELSE OnStepError(step),
               !.calls = @ \cup {step},
               !.failedAt = IF ok THEN @ ELSE step,
               !.result = IF ok \/ OnStepError(step) # "raised" THEN @ ELSE "raised"]

\* 1. company_repo.get_by_id; no row raises ValueError inside the try block.
GetCompany(ok) ==
    /\ gr.pc = "company"
    /\ gr' = GrStep("company", ok, "period")
    /\ UNCHANGED nonGrVars

\* 2. _calculate_period_dates(frequency, end_date).
CalculatePeriodDates ==
    /\ gr.pc = "period"
    /\ gr' = GrStep("period", TRUE, "kpis")
    /\ UNCHANGED nonGrVars

\* 3. kpi_calculator.calculate: returns the KPIs or re-raises the error of an
\* aggregate query.
CalculateKpis(ok) ==
    /\ gr.pc = "kpis"
    /\ gr' = GrStep("kpis", ok, "compare")
    /\ UNCHANGED nonGrVars

\* 4. kpi_comparator.compare: returns the comparison or re-raises.
CompareKpis(ok) ==
    /\ gr.pc = "compare"
    /\ gr' = GrStep("compare", ok, "insights")
    /\ UNCHANGED nonGrVars

\* 5. _extract_insights: returns the insights the miners found (it never
\* raises, see MineOne).
ExtractInsights(n) ==
    /\ gr.pc = "insights"
    /\ gr' = [GrStep("miners", TRUE, "select") EXCEPT !.found = n]
    /\ UNCHANGED nonGrVars

\* 6. insight_selector.select_top_insights(insights, max_count=...).
SelectTopInsights ==
    /\ gr.pc = "select"
    /\ gr' = [GrStep("selector", TRUE, "recommend") EXCEPT
                 !.top = IF gr.found < MaxInsightsPerReport THEN gr.found
                         ELSE MaxInsightsPerReport]
    /\ UNCHANGED nonGrVars

\* 7. recommendations_generator.generate: always returns a text.
GenerateRecommendations ==
    /\ gr.pc = "recommend"
    /\ gr' = GrStep("generator", TRUE, "build")
    /\ UNCHANGED nonGrVars

\* 8. ReportData(...) is built and returned.
ReturnReport ==
    /\ gr.pc = "build"
    /\ gr' = [gr EXCEPT !.pc = "returned", !.result = "ReportData"]
    /\ UNCHANGED nonGrVars

GrNext ==
    \/ \E ok \in BOOLEAN : GetCompany(ok)
    \/ CalculatePeriodDates
    \/ \E ok \in BOOLEAN : CalculateKpis(ok)
    \/ \E ok \in BOOLEAN : CompareKpis(ok)
    \/ \E n \in 0..Len(Miners) : ExtractInsights(n)
    \/ SelectTopInsights
    \/ GenerateRecommendations
    \/ ReturnReport

\* C11: when the KPI calculation or the period comparison has raised,
\* generate_report is at its raise: the error went to the caller, no
\* ReportData is returned, and neither the miners nor the selector nor the
\* recommendation generator have been or will be called.
C11_KpiFailureAborts ==
    gr.failedAt \in {"kpis", "compare"} =>
        /\ gr.pc = "raised"
        /\ gr.result = "raised"
        /\ gr.calls \cap {"miners", "selector", "generator"} = {}

\* C11 witness: the comparison raised after the KPI calculation returned.
C11_Witness ==
    /\ gr.failedAt = "compare"
    /\ gr.pc = "raised"
    /\ "kpis" \in gr.calls

(***************************************************************************)
(* RecommendationsGenerator, GeminiClient.generate_recommendations and     *)
(* async_retry.  A text is a sequence of one-character strings.            *)
(***************************************************************************)

\* Longest run of ordinary characters in an AI answer of the model.
MaxBody == 22
\* "len(recs.strip()) > 20" in generate.
MinRecLen == 20

Whitespace == {" ", "\n"}

\* n times the character c.
RECURSIVE Rep(_, _)
Rep(c, n) == IF n = 0 THEN <<>> ELSE <<c>> \o Rep(c, n - 1)

\* str.strip(): leading and trailing whitespace removed.
RECURSIVE LStrip(_)
LStrip(t) == IF t # <<>> /\ Head(t) \in Whitespace THEN LStrip(Tail(t)) ELSE t

RECURSIVE RStrip(_)
RStrip(t) ==
    IF t # <<>> /\ t[Len(t)] \in Whitespace
    THEN RStrip(SubSeq(t, 1, Len(t) - 1)) ELSE t

Strip(t) == RStrip(LStrip(t))

\* str.startswith(p).
StartsWith(t, p) == Len(t) >= Len(p) /\ SubSeq(t, 1, Len(p)) = p

\* str.replace(p, ""): every occurrence of p removed, left to right.
RECURSIVE RemoveAll(_, _)
RemoveAll(t, p) ==
    IF t = <<>> THEN <<>>
    ELSE IF StartsWith(t, p) THEN RemoveAll(SubSeq(t, Len(p) + 1, Len(t)), p)
    ELSE <<Head(t)>> \o RemoveAll(Tail(t), p)

\* str.replace(p, "", 1): the first occurrence of p removed.
RECURSIVE RemoveFirst(_, _)
RemoveFirst(t, p) ==
    IF t = <<>> THEN <<>>
    ELSE IF StartsWith(t, p) THEN SubSeq(t, Len(p) + 1, Len(t))
    ELSE <<Head(t)>> \o RemoveFirst(Tail(t), p)

\* The introductions _clean_recommendations removes, in the order of its list.
CleanPrefixes ==
    << <<"V", "o", "i", "c", "i", " ", "m", "e", "s", " ", "r", "e", "c", "o", "m", "m", "a", "n", "d", "a", "t", "i", "o", "n", "s", " ", ":">>,
       <<"R", "e", "c", "o", "m", "m", "a", "n", "d", "a", "t", "i", "o", "n", "s", " ", ":">>,
       <<"M", "e", "s", " ", "r", "e", "c", "o", "m", "m", "a", "n", "d", "a", "t", "i", "o", "n", "s", " ", ":">>,
       <<"J", "e", " ", "r", "e", "c", "o", "m", "m", "a", "n", "d", "e", " ", ":">>,
       <<"J", "e", " ", "v", "o", "u", "s", " ", "r", "e", "c", "o", "m", "m", "a", "n", "d", "e", " ", ":">> >>

RECURSIVE StripPrefixes(_, _)
StripPrefixes(t, i) ==
    IF i > Len(CleanPrefixes) THEN t
    ELSE StripPrefixes(IF StartsWith(Strip(t), CleanPrefixes[i])
                       THEN RemoveFirst(t, CleanPrefixes[i]) ELSE t, i + 1)

\* " ".join(text.split()): the words of the text with one space between them.
RECURSIVE JoinWords(_, _)
JoinWords(t, inWord) ==
    LET s == LStrip(t)
    IN IF s = <<>> THEN <<>>
       ELSE IF t # s
            THEN (IF inWord THEN <<" ">> ELSE <<>>) \o JoinWords(s, TRUE)
            ELSE <<Head(t)>> \o JoinWords(Tail(t), TRUE)

\* text.split("\n"): the pieces between line feeds.
RECURSIVE SplitLines(_, _)
SplitLines(t, cur) ==
    IF t = <<>> THEN <<cur>>
    ELSE IF Head(t) = "\n" THEN <<cur>> \o SplitLines(Tail(t), <<>>)
    ELSE SplitLines(Tail(t), Append(cur, Head(t)))

\* l.strip() if it starts with "-" else "- " + l.strip().
DashLine(l) ==
    IF StartsWith(Strip(l), <<"-">>) THEN Strip(l) ELSE <<"-", " ">> \o Strip(l)

\* "\n".join(lines).
RECURSIVE JoinLines(_)
JoinLines(ls) ==
    IF ls = <<>> THEN <<>>
    ELSE IF Len(ls) = 1 THEN ls[1]
    ELSE ls[1] \o <<"\n">> \o JoinLines(Tail(ls))

\* RecommendationsGenerator._clean_recommendations(text).
CleanRecommendations(text) ==
    IF text = <<>> THEN <<>>
    ELSE LET t1 == RemoveAll(RemoveAll(RemoveAll(text, <<"*", "*">>), <<"*">>), <<"#">>)
             t2 == StripPrefixes(t1, 1)
             t3 == JoinWords(t2, FALSE)
             ls == SelectSeq(SplitLines(t3, <<>>), LAMBDA l : Strip(l) # <<>>)
         IN JoinLines([i \in 1..Len(ls) |-> DashLine(ls[i])])


\* @async_retry(max_attempts=3, ...) of GeminiClient.generate_recommendations.
MaxAttempts == 3
\* Largest customer count of a KPI snapshot of the model.
MaxCustomers == 2

\* Exception classes of the external call (all subclasses of Exception).
GeminiErrors == {"APIError", "TimeoutError"}

\* response.text of the external call: nothing, whitespace, markers only,
\* and answers of 0..MaxBody ordinary characters -- bare, as a bullet, in
\* bold, after an introduction, and in two paragraphs.
ResponseTexts ==
    {<<>>, <<" ", "\n">>, <<"*", "*">>, <<"#", " ", "#">>}
    \cup {Rep("a", n) : n \in 0..MaxBody}
    \cup {<<"-", " ">> \o Rep("a", n) : n \in 0..MaxBody}
    \cup {<<"*", "*">> \o Rep("a", n) \o <<"*", "*">> : n \in 0..MaxBody}
    \cup {CleanPrefixes[2] \o <<"\n">> \o Rep("a", n) : n \in 0..MaxBody}
    \cup {Rep("a", n) \o <<"\n", "\n">> \o <<"b", "b">> : n \in 0..MaxBody}

\* The body of generate_recommendations on a response: "" for an empty
\* response, else response.text.strip().
ClientText(resp) == IF resp = <<>> THEN <<>> ELSE Strip(resp)

\* KPI snapshots and comparisons the fallback reads: net_result (sign),
\* revenue_variation (whole percent, around the -10 threshold),
\* returning_customers and new_customers.
KpiSnapshots ==
    [net : {-1, 0, 1}, rev : {-11, -10, 0}, ret : 0..MaxCustomers,
     new : 0..MaxCustomers]

BulletExpenses == <<"-", " ", "Reduisez immediatement vos depenses de 15 a 20%">>
BulletPromotion == <<"-", " ", "Lancer une promotion clients existants">>
BulletLoyalty == <<"-", " ", "Mettez en place une offre fidelite">>
BulletGeneric == <<"-", " ", "Continuez vos efforts actuels">>

\* "if not rec: rec.append(<generic>)" of _generate_fallback.
FallbackGenericNever(r) == r

FallbackGeneric(r) == IF r = <<>> THEN <<BulletGeneric>> ELSE r

\* The list rec of _generate_fallback, before the join.
FallbackBullets(k) ==
    FallbackGeneric(
        (IF k.net < 0 THEN <<BulletExpenses>> ELSE <<>>)
        \o (IF k.rev < -10 THEN <<BulletPromotion>> ELSE <<>>)
        \o (IF k.ret < k.new THEN <<BulletLoyalty>> ELSE <<>>))

\* RecommendationsGenerator._generate_fallback: "\n".join(rec[:3]).
GenerateFallback(k) ==
    LET r == FallbackBullets(k)
    IN JoinLines(SubSeq(r, 1, IF Len(r) < 3 THEN Len(r) ELSE 3))

\* "if recs and len(recs.strip()) > 20" of generate.
AcceptsAlways(recs) == TRUE

Accepts(recs) == recs # <<>> /\ Len(Strip(recs)) > MinRecLen

RecParkedValue ==
    [pc |-> "parked", useLlm |-> FALSE,
     kpis |-> [net |-> 0, rev |-> 0, ret |-> 0, new |-> 0],
     attempt |-> 1, calls |-> 0, sleeps |-> 0, excs |-> <<>>,
     gem |-> "none", exc |-> "none", raw |-> <<>>, recs |-> <<>>, out |-> <<>>,
     src |-> "none"]

RecParked == rec = RecParkedValue

\* The call generate(company_name, ..., kpis, kpis_comparison, insights);
\* use_llm is fixed by the settings at construction.
RecInit ==
    \E u \in BOOLEAN, k \in KpiSnapshots :
        rec = [RecParkedValue EXCEPT !.pc = "start", !.useLlm = u, !.kpis = k]

\* "if self.use_llm and self.gemini_client" of generate.
GenerateStart ==
    /\ rec.pc = "start"
    /\ rec' = [rec EXCEPT !.pc = IF rec.useLlm THEN "call" ELSE "fallback"]
    /\ UNCHANGED nonRecVars

\* What the retry wrapper does after a raising attempt: the last attempt
\* re-raises, any other attempt sleeps and loops.
AfterFailureRetryForever(attempt) == "sleep"

AfterFailure(attempt) == IF attempt = MaxAttempts THEN "raise" ELSE "sleep"

\* One attempt of the wrapper: the external call returns a response.
GeminiReturns(resp) ==
    /\ rec.pc = "call"
    /\ rec' = [rec EXCEPT !.pc = "clean", !.calls = @ + 1, !.gem = "returned",
                          !.raw = ClientText(resp)]
    /\ UNCHANGED nonRecVars

\* One attempt of the wrapper: the external call raises e.  After the last
\* attempt the exception leaves the wrapper and _generate_with_gemini, and
\* generate's except logs it and goes on to the fallback.
GeminiRaises(e) ==
    /\ rec.pc = "call"
    /\ rec.calls <= MaxAttempts    \* cap of the counter
    /\ rec' = [rec EXCEPT !.calls = @ + 1, !.excs = Append(@, e),
                 !.pc = IF AfterFailure(rec.attempt) = "raise"
                        THEN "fallback" ELSE "sleep",
                 !.gem = IF AfterFailure(rec.attempt) = "raise"
                         THEN "raised" ELSE @,
                 !.exc = IF AfterFailure(rec.attempt) = "raise" THEN e ELSE @]
    /\ UNCHANGED nonRecVars

\* await asyncio.sleep(delay), then the next attempt.
BackoffSleep ==
    /\ rec.pc = "sleep"
    /\ rec' = [rec EXCEPT !.pc = "call", !.sleeps = @ + 1, !.attempt = @ + 1]
    /\ UNCHANGED nonRecVars

\* _clean_recommendations on the text of the client, then the length test.
CleanAndTest ==
    /\ rec.pc = "clean"
    /\ LET recs == CleanRecommendations(rec.raw)
       IN rec' = IF Accepts(recs)
                 THEN [rec EXCEPT !.pc = "done", !.recs = recs, !.out = recs,
                                  !.src = "ai"]
                 ELSE [rec EXCEPT !.pc = "fallback", !.recs = recs]
    /\ UNCHANGED nonRecVars

\* return self._generate_fallback(kpis, kpis_comparison, insights).
ReturnFallback ==
    /\ rec.pc = "fallback"
    /\ rec' = [rec EXCEPT !.pc = "done", !.out = GenerateFallback(rec.kpis),
                          !.src = "fallback"]
    /\ UNCHANGED nonRecVars

RecNext ==
    \/ GenerateStart
    \/ \E resp \in ResponseTexts : GeminiReturns(resp)
    \/ \E e \in GeminiErrors : GeminiRaises(e)
    \/ BackoffSleep
    \/ CleanAndTest
    \/ ReturnFallback


\* C12: generate always returns a text and never raises.  It returns the AI
\* text exactly when the client returned one whose sanitized form is not
\* empty and longer than MinRecLen characters, and then it returns that
\* sanitized form; when the client raised after its retries, returned the
\* empty text or a text that is too short once sanitized, or the LLM is off,
\* it returns the text of _generate_fallback.
C12_FallbackOnSynthesisFailure ==
    rec.pc = "done" =>
        LET clean == CleanRecommendations(rec.raw)
            good == /\ rec.gem = "returned"
                    /\ clean # <<>>
                    /\ Len(Strip(clean)) > MinRecLen
        IN /\ rec.src \in {"ai", "fallback"}
           /\ rec.out # <<>>
           /\ (rec.src = "ai") <=> good
           /\ rec.src = "ai" => rec.out = clean
           /\ rec.src = "fallback" => rec.out = GenerateFallback(rec.kpis)

\* C12 witness: the client returned a text whose sanitized form has exactly
\* MinRecLen characters, and generate returned the fallback.
C12_Witness ==
    /\ rec.pc = "done" /\ rec.src = "fallback" /\ rec.gem = "returned"
    /\ rec.raw # <<>>
    /\ Len(rec.recs) = MinRecLen

\* C16: one call of generate_recommendations makes at most MaxAttempts
\* external calls; an attempt that returns ends the loop (one call more than
\* there were failures, one sleep per failure); a failed attempt before the
\* last is followed by one sleep and one more attempt, whatever the class of
\* the exception; when all attempts raised, the exception of the last one
\* propagates and no sleep follows it.
C16_AtMostThreeAttempts ==
    /\ rec.calls <= MaxAttempts
    /\ rec.sleeps = rec.attempt - 1
    /\ rec.gem = "returned" =>
          /\ rec.calls = Len(rec.excs) + 1
          /\ rec.sleeps = Len(rec.excs)
    /\ rec.gem = "raised" =>
          /\ rec.calls = MaxAttempts
          /\ Len(rec.excs) = MaxAttempts
          /\ rec.sleeps = MaxAttempts - 1
          /\ rec.exc = rec.excs[MaxAttempts]
    /\ rec.pc = "sleep" =>
          (rec.calls = rec.attempt /\ Len(rec.excs) = rec.calls
           /\ rec.calls < MaxAttempts)
    /\ (rec.gem = "none" /\ rec.calls > 0) => rec.pc \in {"sleep", "call"}

\* C16 witness: three attempts raised, with exceptions of different classes,
\* and the last one propagated.
C16_Witness ==
    /\ rec.gem = "raised" /\ rec.calls = MaxAttempts
    /\ rec.excs[1] # rec.excs[2]
    /\ rec.exc = rec.excs[MaxAttempts]

\* C17: the fallback text is never empty and has 1 to 3 lines, each a
\* bullet starting with "-": the bullet of each rule that fires
\* (net_result < 0, revenue_variation < -10, returning < new customers), in
\* that order, and the generic bullet exactly when no rule fires.
C17_FallbackBullets ==
    rec.src = "fallback" =>
        LET k == rec.kpis
            lines == SplitLines(rec.out, <<>>)
            fires == <<k.net < 0, k.rev < -10, k.ret < k.new>>
            bullets == <<BulletExpenses, BulletPromotion, BulletLoyalty>>
            n == Cardinality({i \in 1..3 : fires[i]})
            Pos(b) == CHOOSE j \in 1..Len(lines) : lines[j] = b
        IN /\ rec.out # <<>>
           /\ Len(lines) \in 1..3
           /\ \A j \in 1..Len(lines) : StartsWith(lines[j], <<"-">>)
           /\ Len(lines) = IF n = 0 THEN 1 ELSE n
           /\ \A i \in 1..3 : fires[i] <=> \E j \in 1..Len(lines) : lines[j] = bullets[i]
           /\ \A i1, i2 \in 1..3 :
                 (i1 < i2 /\ fires[i1] /\ fires[i2]) => Pos(bullets[i1]) < Pos(bullets[i2])
           /\ (n = 0) <=> \E j \in 1..Len(lines) : lines[j] = BulletGeneric

\* C17 witness: the fallback returned three bullets for a snapshot without
\* customers.
C17_Witness ==
    /\ rec.src = "fallback"
    /\ Len(SplitLines(rec.out, <<>>)) = 3
    /\ rec.kpis.ret = 0

(***************************************************************************)
(* _generate_and_send_report and _save_report_history: the database        *)
(* session and the report_history table                                    *)
(***************************************************************************)

HsParkedValue ==
    [pc |-> "parked", company |-> "company_1", freq |-> "weekly",
     recipientGiven |-> FALSE, session |-> "none", pending |-> <<>>,
     committed |-> <<>>, sendDone |-> FALSE, sendSuccess |-> FALSE,
     err |-> "none", saveFailed |-> FALSE, logged |-> FALSE,
     result |-> "none", exc |-> "none"]

HsParked == hs = HsParkedValue

\* The call _generate_and_send_report(company_id, frequency, recipient, ...).
HsInit ==
    \E c \in Companies, f \in Frequencies, g \in BOOLEAN :
        hs = [HsParkedValue EXCEPT !.pc = "open", !.company = c, !.freq = f,
                                   !.recipientGiven = g]

\* An exception inside "async with AsyncSessionLocal() as session": the
\* context manager exits first, then the except branch of the function runs.
HsRaise(h, e) == [h EXCEPT !.pc = "exit", !.err = e]

\* async with AsyncSessionLocal() as session: the session is obtained, or the
\* factory raises and session stays None.
OpenSession(ok) ==
    /\ hs.pc = "open"
    /\ hs' = IF ok THEN [hs EXCEPT !.pc = "generate", !.session = "open"]
             ELSE [hs EXCEPT !.pc = "except", !.err = "session"]
    /\ UNCHANGED nonHsVars

\* 1. report_service.generate_report returns the report or raises.
ServiceGenerateReport(ok) ==
    /\ hs.pc = "generate"
    /\ hs' = IF ok
             THEN [hs EXCEPT !.pc = IF hs.recipientGiven THEN "send" ELSE "recipient"]
             ELSE HsRaise(hs, "generation")
    /\ UNCHANGED nonHsVars

\* 2. get_company_with_config: contact_phone found, or not configured
\* (ValueError), or the lookup raises.
LookupRecipient(found) ==
    /\ hs.pc = "recipient"
    /\ hs' = IF found THEN [hs EXCEPT !.pc = "send"]
             ELSE HsRaise(hs, "recipient")
    /\ UNCHANGED nonHsVars

\* 4. notification_service.send_report returns True or False; it never raises.
NotificationSend(success) ==
    /\ hs.pc = "send"
    /\ hs' = [hs EXCEPT !.pc = "save", !.sendDone = TRUE, !.sendSuccess = success]
    /\ UNCHANGED nonHsVars

\* What the success path does when its history write raises: the call is not
\* guarded, so the error leaves the "async with" block like any other.
OnSaveFailure(h) == HsRaise(h, "history")

\* What _save_report_history does to the session after its INSERT: nothing
\* ("Pas de commit ici"), the row stays pending in the open transaction.
AfterInsert(h) == h

\* 5. _save_report_history(status = SUCCESS if send_success else FAILED):
\* session.execute(INSERT ...) succeeds or raises.
SaveReportHistory(ok) ==
    /\ hs.pc = "save"
    /\ hs' = IF ok
             THEN AfterInsert([hs EXCEPT !.pc = "return",
                      !.pending = Append(@, IF hs.sendSuccess THEN "success"
                                            ELSE "failed")])
             ELSE OnSaveFailure([hs EXCEPT !.saveFailed = TRUE])
    /\ UNCHANGED nonHsVars

\* return {"status": "success" if send_success else "failed", ...}
ReturnResult ==
    /\ hs.pc = "return"
    /\ hs' = [hs EXCEPT !.pc = "exit",
                        !.result = IF hs.sendSuccess THEN "success" ELSE "failed"]
    /\ UNCHANGED nonHsVars

\* The session's context manager exits (by return or by exception): it closes
\* the session, which rolls back what was not committed.
SessionExit ==
    /\ hs.pc = "exit"
    /\ hs' = [hs EXCEPT !.pending = <<>>, !.session = "closed",
                        !.pc = IF hs.err = "none" THEN "done" ELSE "except"]
    /\ UNCHANGED nonHsVars

\* except Exception: if session is not None, _save_report_history(status =
\* FAILED) and session.commit(); a failure of either is logged and rolled
\* back.
SaveErrorHistory(insertOk, commitOk) ==
    /\ hs.pc = "except"
    /\ hs' = IF hs.session = "none" THEN [hs EXCEPT !.pc = "reraise"]
             ELSE IF insertOk /\ commitOk
             THEN [hs EXCEPT !.pc = "reraise", !.committed = Append(@, "failed")]
             ELSE [hs EXCEPT !.pc = "reraise", !.saveFailed = TRUE, !.logged = TRUE]
    /\ UNCHANGED nonHsVars

\* raise: the exception caught by the except branch goes to the caller.
Reraise ==
    /\ hs.pc = "reraise"
    /\ hs' = [hs EXCEPT !.pc = "done", !.result = "raised", !.exc = hs.err]
    /\ UNCHANGED nonHsVars

HsNext ==
    \/ \E ok \in BOOLEAN : OpenSession(ok)
    \/ \E ok \in BOOLEAN : ServiceGenerateReport(ok)
    \/ \E found \in BOOLEAN : LookupRecipient(found)
    \/ \E success \in BOOLEAN : NotificationSend(success)
    \/ \E ok \in BOOLEAN : SaveReportHistory(ok)
    \/ ReturnResult
    \/ SessionExit
    \/ \E i, c \in BOOLEAN : SaveErrorHistory(i, c)
    \/ Reraise

\* C13 (the claim as stated): an attempt that obtained a session and has
\* ended, by a result or by an exception, has left exactly one committed
\* report_history entry.
C13_ExactlyOneHistoryEntry ==
    (hs.pc = "done" /\ hs.session # "none") => Len(hs.committed) = 1

\* C14 (the claim as stated): a failed history write is only logged; after
\* a completed send the function still returns its result, and an exception
\* that leaves the function is never the one of the history write.
C14_HistoryFailureOnlyLogged ==
    hs.pc = "done" =>
        /\ (hs.sendDone /\ hs.saveFailed) => hs.result \in {"success", "failed"}
        /\ hs.result = "raised" => hs.exc # "history"

(***************************************************************************)
(* _generate_reports_for_frequency: the scheduled batch                    *)
(***************************************************************************)

\* Number of active companies of the batch.
NumCompanies == 6
\* MAX_CONCURRENT_REPORTS of _generate_reports_for_frequency.
MaxConcurrentReports == 5

BatchCompanies == 1..NumCompanies

\* How process_company left: the result of _generate_and_send_report
\* ("success" or "failed"), its exception, or no contact phone.
ExitPaths == {"success", "failed", "exception", "no_phone"}

CoIdle == [pc |-> "waiting", path |-> "none"]

BatchParkedValue ==
    [pc |-> "parked", permits |-> 0, co |-> [c \in BatchCompanies |-> CoIdle],
     total |-> 0, success |-> 0, failed |-> 0]

BatchParked == batch = BatchParkedValue

\* companies listed, semaphore = asyncio.Semaphore(MAX_CONCURRENT_REPORTS),
\* asyncio.gather(*[process_company(company) ...]) started.
BatchInit ==
    batch = [BatchParkedValue EXCEPT !.pc = "gather",
                                     !.permits = MaxConcurrentReports,
                                     !.total = NumCompanies]

\* asyncio.Semaphore.acquire: a permit is taken when one is left.
CanAcquireAlways(permits) == TRUE

CanAcquire(permits) == permits > 0

\* "async with semaphore": exit, on return and on exception alike.
Released(b, c, path) ==
    [b EXCEPT !.permits = @ + 1, !.co[c] = [pc |-> "done", path |-> path]]

\* process_company up to its first await after the semaphore: the permit is
\* taken and recipient = company.get('contact_phone') is read; without a
\* phone the failed result is returned at once, else
\* _generate_and_send_report is awaited.
Acquire(c, hasPhone) ==
    /\ batch.pc = "gather"
    /\ batch.co[c].pc = "waiting"
    /\ CanAcquire(batch.permits)
    /\ LET held == [batch EXCEPT !.permits = @ - 1, !.co[c].pc = "generating"]
       IN batch' = IF hasPhone THEN held ELSE Released(held, c, "no_phone")
    /\ UNCHANGED nonBatchVars

\* _generate_and_send_report returns "success" or "failed", or raises and the
\* except branch returns the failed result.
GenerationEnds(c, path) ==
    /\ batch.co[c].pc = "generating"
    /\ batch' = Released(batch, c, path)
    /\ UNCHANGED nonBatchVars

\* Number of results with one of the given exit paths.
CountPathsWithPhone(paths) ==
    Cardinality({c \in BatchCompanies : batch.co[c].path \in paths \ {"no_phone"}})

CountPaths(paths) ==
    Cardinality({c \in BatchCompanies : batch.co[c].path \in paths})

\* gather has all results: they are counted and the statistics returned.
GatherReturns ==
    /\ batch.pc = "gather"
    /\ \A c \in BatchCompanies : batch.co[c].pc = "done"
    /\ batch' = [batch EXCEPT !.pc = "returned",
           !.success = CountPaths({"success"}),
           !.failed = CountPaths(ExitPaths \ {"success"})]
    /\ UNCHANGED nonBatchVars

BatchNext ==
    \/ \E c \in BatchCompanies, p \in BOOLEAN : Acquire(c, p)
    \/ \E c \in BatchCompanies, path \in {"success", "failed", "exception"} :
          GenerationEnds(c, path)
    \/ GatherReturns

\* Generations in progress: coroutines inside "async with semaphore".
InProgress == Cardinality({c \in BatchCompanies : batch.co[c].pc = "generating"})

\* The permits taken are those of the generations in progress, never more
\* than MaxConcurrentReports.
C15_Safe ==
    /\ InProgress <= MaxConcurrentReports
    /\ batch.pc # "parked" => batch.permits = MaxConcurrentReports - InProgress

\* C15: at every moment of a batch at most MaxConcurrentReports generations
\* are in progress and every coroutine that left, by whatever path, gave its
\* permit back; and every company is processed and the batch returns.
C15_AtMostFiveAndTerminates ==
    /\ []C15_Safe
    /\ <>(batch.pc = "returned" /\ \A c \in BatchCompanies : batch.co[c].pc = "done")

\* C15 witness: five generations are in progress, no permit is left, one
\* company waits and none has finished.
C15_Witness ==
    /\ InProgress = MaxConcurrentReports
    /\ batch.permits = 0
    /\ \E c \in BatchCompanies : batch.co[c].pc = "waiting"

\* A company that was attempted is not attempted again: once its coroutine
\* holds or has returned the permit it never waits again, and a finished
\* one keeps its result.
AttemptedOnce ==
    \A c \in BatchCompanies :
        /\ batch.co[c].pc = "generating" => batch'.co[c].pc \in {"generating", "done"}
        /\ batch.co[c].pc = "done" => batch'.co[c] = batch.co[c]

\* The statistics returned: every listed company is counted once, as a
\* success or as a failure.
BatchTotals ==
    batch.pc = "returned" =>
        /\ batch.total = Cardinality(BatchCompanies)
        /\ batch.success + batch.failed = batch.total
        /\ batch.success = Cardinality({c \in BatchCompanies : batch.co[c].path = "success"})
        /\ \A c \in BatchCompanies : batch.co[c].pc = "done"

\* C28: for every mix of per-company outcomes (success, failed result,
\* exception, no contact phone) the batch returns total = number of listed
\* companies and success + failed = total; each company is attempted at most
\* once, and whatever fails, the other companies are processed and the batch
\* returns.
C28_BatchTotals ==
    /\ []BatchTotals
    /\ [][AttemptedOnce]_vars
    /\ <>(batch.pc = "returned")

\* C28 witness: a batch returned in which the four outcomes all occurred.
C28_Witness ==
    /\ batch.pc = "returned"
    /\ \A path \in ExitPaths : \E c \in BatchCompanies : batch.co[c].path = path
    /\ batch.success + batch.failed = NumCompanies

(***************************************************************************)
(* POST /reports/generate (generate_report_manual)                         *)
(***************************************************************************)

\* Requests one client sends within one minute.
MaxPosts == 12
\* strict_limiter = RateLimiter(requests_per_minute=10, ...).
StrictPerMinute == 10

\* The dependencies FastAPI runs before the handler: those named in the
\* route decorator, the handler's parameters and the router.  The route
\* @router.post("/generate") names none, its parameters are all Body(...),
\* and include_router adds none: rate_limit_strict is defined in
\* api/dependencies.py and attached to no route.
RouteDependencies == {}

EpParkedValue ==
    [pc |-> "parked", n |-> 0, counted |-> 0, enqueued |-> 0, last |-> 0,
     rejected |-> 0]

EpParked == ep = EpParkedValue

EpInit == ep = [EpParkedValue EXCEPT !.pc = "serving"]

\* One POST /reports/generate of the client: the dependencies, then the
\* handler -- 400 for an invalid phone or date, 503/500 when the task cannot
\* be enqueued, else generate_single_report.delay(...) and 200.
PostGenerate(valid, brokerOk) ==
    /\ ep.pc = "serving"
    /\ ep.n < MaxPosts
    /\ LET limited == "rate_limit_strict" \in RouteDependencies
           over == limited /\ ep.counted + 1 > StrictPerMinute
           code == IF over THEN 429
                   ELSE IF ~valid THEN 400
                   ELSE IF ~brokerOk THEN 503
                   ELSE 200
       IN ep' = [ep EXCEPT !.n = @ + 1,
                    !.counted = IF limited THEN @ + 1 ELSE @,
                    !.last = code,
                    !.rejected = IF code = 429 THEN @ + 1 ELSE @,
                    !.enqueued = IF code = 200 THEN @ + 1 ELSE @]
    /\ UNCHANGED nonEpVars

EpNext == \E valid, brokerOk \in BOOLEAN : PostGenerate(valid, brokerOk)

\* C18 (the claim as stated): of the requests one client sends to
\* POST /reports/generate within a minute, the 11th and later ones are
\* answered 429 and enqueue nothing.
C18_StrictLimiterGuardsGenerate ==
    /\ ep.enqueued <= StrictPerMinute
    /\ ep.n > StrictPerMinute => ep.last = 429

(***************************************************************************)
(* InsightSelector: calculate_score and select_top_insights.  A financial  *)
(* impact is counted in units of 100,000 XAF and a score in points of the  *)
(* default weights (40, 30, 30), so that every score is an integer.        *)
(***************************************************************************)

\* Longest insight list handed to select_top_insights.
MaxInsights == 3
\* Largest financial impact of the model, in units of 100,000 XAF.
MaxImpact == 12
\* The cap of calculate_score, 1_000_000 XAF, in units of 100,000 XAF.
ImpactCap == 10
\* MAX_INSIGHTS_PER_REPORT is validated to lie between 1 and 10.
MaxCountLimit == 10

\* InsightModel fields read by the selector: priority (1..5),
\* financial_impact (None when hasFi is false, else a Decimal; negative ones
\* are not excluded) and actionable.
Priorities == 1..5
Impacts == -1..MaxImpact

\* The insights the lists of the model are made of.
InsightPool ==
    [p : {1, 5}, hasFi : {TRUE}, fi : {5, MaxImpact}, a : BOOLEAN]
    \cup [p : {1, 5}, hasFi : {FALSE}, fi : {0}, a : BOOLEAN]

RECURSIVE ListsUpTo(_)
ListsUpTo(n) ==
    IF n = 0 THEN {<<>>}
    ELSE LET shorter == ListsUpTo(n - 1)
         IN shorter \cup {Append(l, x) : l \in {s \in shorter : Len(s) = n - 1},
                                          x \in InsightPool}

\* min(float(financial_impact) / 1_000_000.0, 1.0), times ImpactCap.
ImpactNormalizedUncapped(fi) == fi

ImpactNormalized(fi) == IF fi < ImpactCap THEN fi ELSE ImpactCap

\* calculate_score: (priority / 5) * 40 + impact * 30 + actionable * 30,
\* where "if insight.financial_impact" is false for None and for 0.
CalculateScore(i) ==
    8 * i.p
    + (IF ~i.hasFi THEN 0
       ELSE IF i.fi = 0 THEN 0
       ELSE 3 * ImpactNormalized(i.fi))
    + (IF i.a THEN 30 ELSE 0)

\* list.sort(key=score, reverse=True) is stable: index i goes behind every
\* index already placed whose score is not lower.
RECURSIVE InsertDesc(_, _, _)
InsertDesc(sorted, i, scores) ==
    IF sorted = <<>> THEN <<i>>
    ELSE IF scores[Head(sorted)] >= scores[i]
         THEN <<Head(sorted)>> \o InsertDesc(Tail(sorted), i, scores)
         ELSE <<i>> \o sorted

RECURSIVE SortDesc(_, _)
SortDesc(scores, n) ==
    IF n = 0 THEN <<>> ELSE InsertDesc(SortDesc(scores, n - 1), n, scores)

\* scored_insights[:max_count].
SliceOneMore(s, n) == SubSeq(s, 1, IF Len(s) < n + 1 THEN Len(s) ELSE n + 1)

Slice(s, n) == SubSeq(s, 1, IF Len(s) < n THEN Len(s) ELSE n)

\* select_top_insights(insights, max_count): the positions, in the input
\* list, of the insights it returns, in the order it returns them.
SelectTopIndices(insights, maxCount) ==
    IF insights = <<>> THEN <<>>
    ELSE LET scores == [i \in 1..Len(insights) |-> CalculateScore(insights[i])]
         IN Slice(SortDesc(scores, Len(insights)), maxCount)

SelParkedValue ==
    [pc |-> "parked", insights |-> <<>>, maxCount |-> 1, scores |-> <<>>,
     top |-> <<>>]

SelParked == sel = SelParkedValue

\* The insight list of a call.
SelInit ==
    \E l \in ListsUpTo(MaxInsights) :
        sel = [SelParkedValue EXCEPT !.pc = "call", !.insights = l]

\* The call select_top_insights(insights, max_count) returns.
SelectTopInsightsReturns(maxCount) ==
    /\ sel.pc = "call"
    /\ sel' = [sel EXCEPT !.pc = "returned", !.maxCount = maxCount,
          !.scores = [i \in 1..Len(sel.insights) |-> CalculateScore(sel.insights[i])],
          !.top = SelectTopIndices(sel.insights, maxCount)]
    /\ UNCHANGED nonSelVars

SelNext == \E n \in 1..MaxCountLimit : SelectTopInsightsReturns(n)

\* C19: select_top_insights returns at most max_count insights, each one an
\* insight of the input and none twice, in order of non-increasing score,
\* and no insight left out has a strictly higher score than a returned one.
C19_TopInsights ==
    sel.pc = "returned" =>
        LET n == Len(sel.insights)
            top == sel.top
            S(i) == CalculateScore(sel.insights[i])
        IN /\ Len(top) <= sel.maxCount
           /\ Len(top) = IF n < sel.maxCount THEN n ELSE sel.maxCount
           /\ \A j \in 1..Len(top) : top[j] \in 1..n
           /\ \A j, k \in 1..Len(top) : j # k => top[j] # top[k]
           /\ \A j, k \in 1..Len(top) : j < k => S(top[j]) >= S(top[k])
           /\ \A i \in 1..n :
                 (\A j \in 1..Len(top) : top[j] # i) =>
                     \A j \in 1..Len(top) : S(i) <= S(top[j])

\* C19 witness: three insights with different scores, in an order that is
\* not the order of their scores, and the best two returned.
C19_Witness ==
    /\ sel.pc = "returned" /\ sel.maxCount = 2
    /\ Len(sel.insights) = 3 /\ Len(sel.top) = 2
    /\ sel.scores[1] < sel.scores[2] /\ sel.scores[2] < sel.scores[3]

\* C20: the score calculate_score gave an insight is not higher than that of
\* the same insight with a higher priority, with a higher financial impact,
\* or made actionable; and it equals that of the same insight with any
\* other impact at or above the cap when its own impact is at or above it.
C20_ScoreMonotonic ==
    sel.pc = "returned" =>
        \A i \in 1..Len(sel.insights) :
            LET x == sel.insights[i]
                s == sel.scores[i]
            IN /\ \A p \in Priorities :
                     /\ p >= x.p => CalculateScore([x EXCEPT !.p = p]) >= s
                     /\ p <= x.p => CalculateScore([x EXCEPT !.p = p]) <= s
               /\ x.hasFi =>
                     \A f \in Impacts :
                         /\ f >= x.fi => CalculateScore([x EXCEPT !.fi = f]) >= s
                         /\ f <= x.fi => CalculateScore([x EXCEPT !.fi = f]) <= s
                         /\ (f >= ImpactCap /\ x.fi >= ImpactCap) =>
                               CalculateScore([x EXCEPT !.fi = f]) = s
               /\ CalculateScore([x EXCEPT !.a = TRUE]) >= s
               /\ CalculateScore([x EXCEPT !.a = FALSE]) <= s

\* C20 witness: an insight with an impact above the cap has been scored.
C20_Witness ==
    /\ sel.pc = "returned"
    /\ \E i \in 1..Len(sel.insights) :
          /\ sel.insights[i].hasFi /\ sel.insights[i].fi = MaxImpact
          /\ sel.scores[i] = 8 * sel.insights[i].p + 3 * ImpactCap
                             + (IF sel.insights[i].a THEN 30 ELSE 0)

(***************************************************************************)
(* Report periods: _calculate_period_dates, the previous period, the       *)
(* period_range string and _parse_period_range.  A date is a record        *)
(* [y, m, d] of the proleptic Gregorian calendar, as datetime.date.        *)
(***************************************************************************)

\* Number of calendar years the end dates are taken from (2024 is a leap
\* year).
NumYears == 2

DateYears == 2024..(2023 + NumYears)

IsLeap(y) == (y % 4 = 0 /\ y % 100 # 0) \/ y % 400 = 0

DaysInMonth(y, m) ==
    IF m = 2 THEN (IF IsLeap(y) THEN 29 ELSE 28)
    ELSE IF m \in {4, 6, 9, 11} THEN 30 ELSE 31

DaysInYear(y) == IF IsLeap(y) THEN 366 ELSE 365

\* date(y, m, d) raises ValueError unless the day exists.
ValidDate(y, m, d) == m \in 1..12 /\ d >= 1 /\ d <= DaysInMonth(y, m)

Dates == {dt \in [y : DateYears, m : 1..12, d : 1..31] : ValidDate(dt.y, dt.m, dt.d)}

\* date.toordinal(): days since 0001-01-01, that day being 1.
RECURSIVE DaysBeforeMonth(_, _)
DaysBeforeMonth(y, m) ==
    IF m = 1 THEN 0 ELSE DaysBeforeMonth(y, m - 1) + DaysInMonth(y, m - 1)

DaysBeforeYear(y) ==
    LET z == y - 1 IN z * 365 + z \div 4 - z \div 100 + z \div 400

ToOrdinal(dt) == DaysBeforeYear(dt.y) + DaysBeforeMonth(dt.y, dt.m) + dt.d

\* date.fromordinal(n).
RECURSIVE MonthOfDay(_, _, _)
MonthOfDay(y, m, n) ==
    IF n <= DaysInMonth(y, m) THEN [y |-> y, m |-> m, d |-> n]
    ELSE MonthOfDay(y, m + 1, n - DaysInMonth(y, m))

RECURSIVE YearOfDay(_, _)
YearOfDay(y, n) ==
    IF n < 1 THEN YearOfDay(y - 1, n + DaysInYear(y - 1))
    ELSE IF n > DaysInYear(y) THEN YearOfDay(y + 1, n - DaysInYear(y))
    ELSE MonthOfDay(y, 1, n)

FromOrdinal(n) == YearOfDay(2024, n - DaysBeforeYear(2024))

\* date - timedelta(days=k), and (a - b).days.
MinusDays(dt, k) == FromOrdinal(ToOrdinal(dt) - k)

DaysBetween(a, b) == ToOrdinal(a) - ToOrdinal(b)

\* a > b on dates.
DateAfter(a, b) == ToOrdinal(a) > ToOrdinal(b)


\* The absent date (None) of a failed parse; pd.pok tells whether the parse
\* returned dates.
NoDate == [y |-> 0, m |-> 0, d |-> 0]

Digits == <<"0", "1", "2", "3", "4", "5", "6", "7", "8", "9">>

DigitChar(n) == Digits[n + 1]

DigitValue(c) == CHOOSE i \in 0..9 : Digits[i + 1] = c

\* strftime('%d') and strftime('%m'): two digits, zero padded.
Fmt2(n) == <<DigitChar(n \div 10), DigitChar(n % 10)>>

\* strftime('%Y') of a four-digit year.
Fmt4(n) == <<DigitChar(n \div 1000), DigitChar((n \div 100) % 10)>> \o Fmt2(n % 100)

\* f"{start_date.strftime('%d/%m')} - {end_date.strftime('%d/%m/%Y')}": the
\* year of the start date is not written.
PeriodRange(start, end) ==
    Fmt2(start.d) \o <<"/">> \o Fmt2(start.m) \o <<" ", "-", " ">>
        \o Fmt2(end.d) \o <<"/">> \o Fmt2(end.m) \o <<"/">> \o Fmt4(end.y)

\* str.split(sep): the pieces between the occurrences of sep.
RECURSIVE SplitOn(_, _, _)
SplitOn(t, sep, cur) ==
    IF t = <<>> THEN <<cur>>
    ELSE IF StartsWith(t, sep)
         THEN <<cur>> \o SplitOn(SubSeq(t, Len(sep) + 1, Len(t)), sep, <<>>)
         ELSE SplitOn(Tail(t), sep, Append(cur, Head(t)))

IsNumber(t) == t # <<>> /\ \A i \in 1..Len(t) : \E k \in 1..10 : Digits[k] = t[i]

\* int(s) of a string of decimal digits.
RECURSIVE ParseInt(_)
ParseInt(t) ==
    IF t = <<>> THEN 0
    ELSE 10 * ParseInt(SubSeq(t, 1, Len(t) - 1)) + DigitValue(t[Len(t)])

\* datetime.strptime(s, "%d/%m/%Y").date(): ok is FALSE where it raises
\* ValueError.
Strptime(s) ==
    LET parts == SplitOn(s, <<"/">>, <<>>)
        ok == /\ Len(parts) = 3
              /\ \A i \in 1..3 : IsNumber(parts[i])
              /\ Len(parts[1]) <= 2 /\ Len(parts[2]) <= 2 /\ Len(parts[3]) = 4
              /\ ValidDate(ParseInt(parts[3]), ParseInt(parts[2]), ParseInt(parts[1]))
    IN IF ok
       THEN [ok |-> TRUE,
             date |-> [y |-> ParseInt(parts[3]), m |-> ParseInt(parts[2]),
                       d |-> ParseInt(parts[1])]]
       ELSE [ok |-> FALSE, date |-> NoDate]

ParseFailed == [ok |-> FALSE, start |-> NoDate, end |-> NoDate]

\* The start of the parsed period is built in the year of the end date and
\* rejected when it falls after the end date.
StartInYearOfEnd(end, month, day) == [y |-> end.y, m |-> month, d |-> day]

\* _parse_period_range(period_range).
ParsePeriodRangeOf(periodRange) ==
    LET parts == SplitOn(JoinWords(periodRange, FALSE), <<" ", "-", " ">>, <<>>)
    IN IF periodRange = <<>> \/ Len(parts) # 2 THEN ParseFailed
       ELSE LET endP == Strptime(Strip(parts[2]))
                startParts == SplitOn(Strip(parts[1]), <<"/">>, <<>>)
            IN IF ~endP.ok THEN ParseFailed
               ELSE IF Len(startParts) # 2 THEN ParseFailed
               ELSE IF ~(IsNumber(startParts[1]) /\ IsNumber(startParts[2]))
                    THEN ParseFailed
               ELSE LET day == ParseInt(startParts[1])
                        month == ParseInt(startParts[2])
                        startD == StartInYearOfEnd(endP.date, month, day)
                    IN IF ~(1 <= day /\ day <= 31) THEN ParseFailed
                       ELSE IF ~(1 <= month /\ month <= 12) THEN ParseFailed
                       ELSE IF ~ValidDate(startD.y, month, day) THEN ParseFailed
                       ELSE IF DateAfter(startD, endP.date) THEN ParseFailed
                       ELSE [ok |-> TRUE, start |-> startD, end |-> endP.date]

\* start_date = end_date - timedelta(days=6).
WeeklyStartSevenBack(end) == MinusDays(end, 7)

WeeklyStart(end) == MinusDays(end, 6)

\* end_date.replace(day=1).
MonthlyStart(end) == [end EXCEPT !.d = 1]

\* quarter_month = ((end_date.month - 1) // 3) * 3 + 1.
QuarterMonth(month) == ((month - 1) \div 3) * 3 + 1

\* end_date.replace(month=quarter_month, day=1).
QuarterlyStart(end) == [end EXCEPT !.m = QuarterMonth(end.m), !.d = 1]

\* ReportService._calculate_period_dates(frequency, end_date): start date
\* and period_range (the end date is returned as passed).
ServicePeriodDates(frequency, end) ==
    LET start == IF frequency = "weekly" THEN WeeklyStart(end)
                 ELSE IF frequency = "monthly" THEN MonthlyStart(end)
                 ELSE QuarterlyStart(end)
    IN [start |-> start, end |-> end, range |-> PeriodRange(start, end)]

\* app.utils.date_utils.calculate_period_dates(frequency, end_date);
\* replace(month=quarter_month, day=1) cannot raise, so the 90-day fallback
\* of the quarterly branch is never taken.
UtilsPeriodDates(frequency, end) ==
    LET start == IF frequency = "weekly" THEN WeeklyStart(end)
                 ELSE IF frequency = "monthly" THEN MonthlyStart(end)
                 ELSE IF ValidDate(end.y, QuarterMonth(end.m), 1)
                      THEN QuarterlyStart(end)
                      ELSE MinusDays(end, 90)
    IN [start |-> start, end |-> end]

\* prev_end_date = start_date - timedelta(days=1).
PrevEndIsStart(start) == start

PrevEnd(start) == MinusDays(start, 1)

\* KPIComparator._calculate_previous_period_dates(start_date, end_date).
ComparatorPreviousPeriod(start, end) ==
    LET periodDuration == DaysBetween(end, start) + 1
        prevEnd == PrevEnd(start)
    IN [start |-> MinusDays(prevEnd, periodDuration - 1), end |-> prevEnd]

\* SeasonalityMiner._calculate_previous_period(start_date, end_date).
SeasonalityPreviousPeriod(start, end) ==
    LET periodDuration == DaysBetween(end, start) + 1
        prevEnd == MinusDays(start, 1)
    IN [start |-> MinusDays(prevEnd, periodDuration - 1), end |-> prevEnd]

\* Days between the report's end date and the day its history is saved.
MaxDelay == 1

NoPeriod == [start |-> NoDate, end |-> NoDate]

PdParkedValue ==
    [pc |-> "parked", freq |-> "weekly", end |-> NoDate, start |-> NoDate,
     range |-> <<>>, prevK |-> NoPeriod, prevS |-> NoPeriod,
     pok |-> FALSE, pstart |-> NoDate, pend |-> NoDate,
     hstart |-> NoDate, hend |-> NoDate]

PdParked == pd = PdParkedValue

\* generate_report(company_id, frequency, end_date) is called.
PdInit ==
    \E f \in Frequencies, e \in Dates :
        pd = [PdParkedValue EXCEPT !.pc = "called", !.freq = f, !.end = e]

\* report_service.py: start_date, end_date, period_name, period_range =
\* self._calculate_period_dates(frequency, end_date).
ResolvePeriod ==
    /\ pd.pc = "called"
    /\ LET p == ServicePeriodDates(pd.freq, pd.end)
       IN pd' = [pd EXCEPT !.pc = "resolved", !.start = p.start, !.range = p.range]
    /\ UNCHANGED nonPdVars

\* The comparator and the seasonality miner each derive the previous period
\* from (start_date, end_date).
PreviousPeriods ==
    /\ pd.pc = "resolved"
    /\ pd' = [pd EXCEPT !.pc = "compared",
                        !.prevK = ComparatorPreviousPeriod(pd.start, pd.end),
                        !.prevS = SeasonalityPreviousPeriod(pd.start, pd.end)]
    /\ UNCHANGED nonPdVars

\* _save_report_history: _parse_period_range(report_data.period_range).
ParsePeriodRange ==
    /\ pd.pc = "compared"
    /\ LET r == ParsePeriodRangeOf(pd.range)
       IN pd' = [pd EXCEPT !.pc = "parsed", !.pok = r.ok,
                           !.pstart = r.start, !.pend = r.end]
    /\ UNCHANGED nonPdVars

\* _save_report_history: the parsed dates are written, or, when the parse
\* failed, the period of calculate_period_dates(frequency, today).
HistoryDates(delay) ==
    /\ pd.pc = "parsed"
    /\ LET today == MinusDays(pd.end, 0 - delay)
           dflt == UtilsPeriodDates(pd.freq, today)
       IN pd' = [pd EXCEPT !.pc = "saved",
                           !.hstart = IF pd.pok THEN pd.pstart ELSE dflt.start,
                           !.hend = IF pd.pok THEN pd.pend ELSE dflt.end]
    /\ UNCHANGED nonPdVars

PdNext ==
    \/ ResolvePeriod
    \/ PreviousPeriods
    \/ ParsePeriodRange
    \/ \E delay \in 0..MaxDelay : HistoryDates(delay)


\* Calendar days used to count the days of a period independently of the
\* ordinal arithmetic: the years of the end dates and the year before.
CalendarDays ==
    {dt \in [y : (2023..(2023 + NumYears)), m : 1..12, d : 1..31] :
        ValidDate(dt.y, dt.m, dt.d)}

\* a <= b on dates, by year, then month, then day.
DateLE(a, b) ==
    \/ a.y < b.y
    \/ a.y = b.y /\ a.m < b.m
    \/ a.y = b.y /\ a.m = b.m /\ a.d <= b.d

\* Number of calendar days from a to b, both included.
DaysInclusive(a, b) == Cardinality({dt \in CalendarDays : DateLE(a, dt) /\ DateLE(dt, b)})

PeriodResolved == pd.pc \in {"resolved", "compared", "parsed", "saved"}

C30_HistoryPeriodIsReportPeriod ==
    /\ pd.pc \in {"parsed", "saved"} =>
           pd.pok /\ pd.pstart = pd.start /\ pd.pend = pd.end
    /\ pd.pc = "saved" => pd.hstart = pd.start /\ pd.hend = pd.end

(***************************************************************************)
(* KPIComparator._calculate_variation_percentage(current, previous).       *)
(* KPI values are whole amounts; a percentage is the exact quotient        *)
(* num/den in lowest terms with den > 0, which the code rounds to 28       *)
(* significant digits (Decimal) and then to the nearest float.             *)
(***************************************************************************)

\* Largest KPI value of the calls; the values start at -2.
MaxKpiValue == 10

KpiValues == (0 - 2)..MaxKpiValue

Abs(n) == IF n < 0 THEN 0 - n ELSE n

RECURSIVE Gcd(_, _)
Gcd(a, b) == IF b = 0 THEN a ELSE Gcd(b, a % b)

\* The quotient n/d, d # 0, in lowest terms with a positive denominator.
Quotient(n, d) ==
    LET g == Gcd(Abs(n), Abs(d))
        s == IF d < 0 THEN 0 - 1 ELSE 1
    IN [num |-> s * (n \div g), den |-> s * (d \div g)]

\* return 100.0 if current > 0 else 0.0.
ZeroPreviousAlwaysZero(current) == Quotient(0, 1)

ZeroPrevious(current) == IF current > 0 THEN Quotient(100, 1) ELSE Quotient(0, 1)

\* variation = ((current - previous) / previous) * 100.
Variation(current, previous) == Quotient((current - previous) * 100, previous)

\* _calculate_variation_percentage(current, previous).
CalculateVariationPercentage(current, previous) ==
    IF previous = 0 THEN ZeroPrevious(current) ELSE Variation(current, previous)

KvParkedValue == [pc |-> "parked", current |-> 0, previous |-> 0, num |-> 0, den |-> 1]

KvParked == kv = KvParkedValue

\* compare() passes the current and the previous value of one KPI.
KvInit ==
    \E c \in KpiValues, p \in KpiValues :
        kv = [KvParkedValue EXCEPT !.pc = "called", !.current = c, !.previous = p]

VariationReturns ==
    /\ kv.pc = "called"
    /\ LET v == CalculateVariationPercentage(kv.current, kv.previous)
       IN kv' = [kv EXCEPT !.pc = "returned", !.num = v.num, !.den = v.den]
    /\ UNCHANGED nonKvVars

KvNext == VariationReturns

\* C23: the variation is (current - previous)/previous*100 when previous is
\* not zero; when previous is zero it is 100 if current > 0 and 0 if
\* current = 0.
C23_VariationPercentage ==
    kv.pc = "returned" =>
        /\ kv.den > 0
        /\ kv.previous # 0 =>
               kv.num * kv.previous = (kv.current - kv.previous) * 100 * kv.den
        /\ (kv.previous = 0 /\ kv.current > 0) => (kv.num = 100 /\ kv.den = 1)
        /\ (kv.previous = 0 /\ kv.current = 0) => (kv.num = 0 /\ kv.den = 1)

\* C23 witness: a call with current 2 and previous 3 returned -100/3.
C23_Witness ==
    /\ kv.pc = "returned"
    /\ kv.previous = 3 /\ kv.current = 2 /\ kv.num = 0 - 100 /\ kv.den = 3

(***************************************************************************)
(* ProfitMarginMiner.mine.  Amounts are whole XAF; the margin is the exact *)
(* quotient net_result * 100 / total_revenue.                              *)
(***************************************************************************)

\* Largest total_revenue of the calls; net_result goes from -3 up to it.
MaxRevenue == 20

Revenues == 0..MaxRevenue

NetResults == (0 - 3)..MaxRevenue

\* profit_margin = float((net_result / total_revenue) * 100).
ProfitMargin(netResult, revenue) == Quotient(netResult * 100, revenue)

\* profit_margin < 0.
IsLoss(margin) == margin.num < 0

\* profit_margin < 10.
IsThinUpToTen(margin) == margin.num <= 10 * margin.den

IsThin(margin) == margin.num < 10 * margin.den

\* profit_margin > 40.
IsExcellent(margin) == margin.num > 40 * margin.den

NoInsight == [emitted |-> FALSE, priority |-> 0, hasImpact |-> FALSE, impact |-> 0]

\* InsightModel(priority=..., financial_impact=...); hasImpact is FALSE for
\* financial_impact=None.
Insight(priority, hasImpact, impact) ==
    [emitted |-> TRUE, priority |-> priority, hasImpact |-> hasImpact, impact |-> impact]

\* ProfitMarginMiner.mine, from total_revenue and net_result on.
MineProfitMargin(revenue, netResult) ==
    IF revenue = 0 THEN NoInsight
    ELSE LET margin == ProfitMargin(netResult, revenue)
         IN IF IsLoss(margin) THEN Insight(5, TRUE, Abs(netResult))
            ELSE IF IsThin(margin) THEN Insight(4, FALSE, 0)
            ELSE IF IsExcellent(margin) THEN Insight(2, FALSE, 0)
            ELSE NoInsight

PmParkedValue == [pc |-> "parked", revenue |-> 0, net |-> 0, out |-> NoInsight]

PmParked == pm = PmParkedValue

\* mine() has obtained total_revenue and net_result (from the context or
\* from the repositories).
PmInit ==
    \E r \in Revenues, n \in NetResults :
        pm = [PmParkedValue EXCEPT !.pc = "called", !.revenue = r, !.net = n]

MineReturns ==
    /\ pm.pc = "called"
    /\ pm' = [pm EXCEPT !.pc = "returned", !.out = MineProfitMargin(pm.revenue, pm.net)]
    /\ UNCHANGED nonPmVars

PmNext == MineReturns

\* C24: with margin = netResult/revenue*100 the miner emits nothing when
\* revenue = 0, a priority-5 loss insight when margin < 0, a priority-4
\* insight when 0 <= margin < 10, a priority-2 insight without financial
\* impact when margin > 40, and nothing when 10 <= margin <= 40.
C24_ProfitMarginThresholds ==
    pm.pc = "returned" =>
        LET r == pm.revenue
            n100 == pm.net * 100
        IN /\ r = 0 => ~pm.out.emitted
           /\ (r > 0 /\ n100 < 0) =>
                  (pm.out.emitted /\ pm.out.priority = 5)
           /\ (r > 0 /\ 0 <= n100 /\ n100 < 10 * r) =>
                  (pm.out.emitted /\ pm.out.priority = 4)
           /\ (r > 0 /\ n100 > 40 * r) =>
                  (pm.out.emitted /\ pm.out.priority = 2 /\ ~pm.out.hasImpact)
           /\ (r > 0 /\ 10 * r <= n100 /\ n100 <= 40 * r) => ~pm.out.emitted

\* C24 witness: a call at the inclusive lower bound (revenue 10, net result
\* 1, a margin of exactly 10 %) returned no insight.
C24_Witness ==
    /\ pm.pc = "returned" /\ pm.revenue = 10 /\ pm.net = 1
    /\ ~pm.out.emitted

(***************************************************************************)
(* idempotent_task: the decorator around a task function.  Callers share   *)
(* one task name and one idempotency key on a healthy store; time advances *)
(* in ticks of the store's clock.                                          *)
(***************************************************************************)

\* Concurrent or successive calls of the wrapped function with the same
\* arguments.
NumCallers == 3

\* ttl_seconds of the decorator, in ticks.
DecTtl == 2

Callers == 1..NumCallers

\* mark_completed(task_name, idempotency_key, ttl_seconds * 24).
CompletedTtlSame(ttl) == ttl

CompletedTtl(ttl) == ttl * 24

DecNoKey == [present |-> FALSE, value |-> "", ttl |-> 0]

\* redis.set(key, "1", ex=ttl_seconds, nx=True): written only if absent.
DecSetNx(key, ttl) ==
    IF key.present THEN key ELSE [present |-> TRUE, value |-> "1", ttl |-> ttl]

\* redis.set(key, "completed", ex=ttl_seconds): written unconditionally.
DecSetCompleted(key, ttl) == [present |-> TRUE, value |-> "completed", ttl |-> ttl]

\* One tick of the store's clock: the key's TTL runs down and the key is
\* removed when it reaches zero.
DecAged(key) ==
    IF ~key.present THEN key
    ELSE IF key.ttl = 1 THEN DecNoKey
    ELSE [key EXCEPT !.ttl = key.ttl - 1]

DecParkedValue ==
    [pc |-> [w \in Callers |-> "parked"], age |-> [w \in Callers |-> 0],
     key |-> DecNoKey, marked |-> FALSE, doneAge |-> 0, note |-> "none"]

DecParked == dec = DecParkedValue

DecInit == dec = [DecParkedValue EXCEPT !.pc = [w \in Callers |-> "idle"]]

\* A caller's pending key is recent: it raised less than ttl_seconds after
\* its is_duplicate wrote the key.
RaisedRecently(w) == dec.pc[w] = "raised" /\ dec.age[w] < DecTtl

\* The key was marked completed less than ttl_seconds * 24 ago.
CompletedRecently == dec.marked /\ dec.doneAge < CompletedTtl(DecTtl)

\* wrapper: is_duplicate(task_name, idempotency_key, ttl_seconds); a
\* duplicate returns {"status": "skipped", "reason": "duplicate"}, otherwise
\* the function starts.  note records what the skipped call came after.
WrapperCall(w) ==
    /\ dec.pc[w] = "idle"
    /\ dec' = [dec EXCEPT
                 !.pc[w] = IF dec.key.present THEN "skipped" ELSE "running",
                 !.age[w] = 0,
                 !.key = DecSetNx(dec.key, DecTtl),
                 !.note = IF ~dec.key.present THEN dec.note
                          ELSE IF CompletedRecently THEN "skipAfterCompleted"
                          ELSE IF \E v \in Callers : RaisedRecently(v)
                               THEN "skipAfterRaise"
                          ELSE dec.note]
    /\ UNCHANGED nonDecVars

\* result = await func(*args, **kwargs) returns.
FuncReturns(w) ==
    /\ dec.pc[w] = "running"
    /\ dec' = [dec EXCEPT !.pc[w] = "returned"]
    /\ UNCHANGED nonDecVars

\* The wrapper has no handler around func: on an exception neither clear
\* nor mark_completed runs, and the key stays as it is.
KeyAfterRaiseCleared(key) == DecNoKey

KeyAfterRaise(key) == key

\* await func(*args, **kwargs) raises: the exception leaves the wrapper.
FuncRaises(w) ==
    /\ dec.pc[w] = "running"
    /\ dec' = [dec EXCEPT !.pc[w] = "raised", !.key = KeyAfterRaise(dec.key)]
    /\ UNCHANGED nonDecVars

\* manager.mark_completed(task_name, idempotency_key, ttl_seconds * 24),
\* then return result.
MarkCompleted(w) ==
    /\ dec.pc[w] = "returned"
    /\ dec' = [dec EXCEPT !.pc[w] = "done",
                          !.key = DecSetCompleted(dec.key, CompletedTtl(DecTtl)),
                          !.marked = TRUE, !.doneAge = 0]
    /\ UNCHANGED nonDecVars

\* The store's clock advances by one tick while a key or a call is live.
DecTick ==
    /\ dec.key.present \/ \E w \in Callers : dec.pc[w] \in {"running", "returned"}
    /\ dec' = [dec EXCEPT
                 !.key = DecAged(dec.key),
                 !.age = [w \in Callers |->
                            IF dec.pc[w] \in {"running", "returned", "raised"}
                               /\ dec.age[w] < DecTtl
                            THEN dec.age[w] + 1 ELSE dec.age[w]],
                 !.doneAge = IF dec.marked /\ dec.doneAge < CompletedTtl(DecTtl)
                             THEN dec.doneAge + 1 ELSE dec.doneAge]
    /\ UNCHANGED nonDecVars

DecNext ==
    \/ \E w \in Callers : WrapperCall(w)
    \/ \E w \in Callers : FuncReturns(w)
    \/ \E w \in Callers : FuncRaises(w)
    \/ \E w \in Callers : MarkCompleted(w)
    \/ DecTick

\* A call that happens in this step is skipped and starts no execution.
CallsAreSkipped ==
    \A w \in Callers :
        (dec.pc[w] = "idle" /\ dec'.pc[w] # "idle") => dec'.pc[w] = "skipped"

\* While the completed period lasts the key holds "completed" and expires
\* ttl_seconds * 24 after the completion.
C25_KeyHeld ==
    CompletedRecently =>
        /\ dec.key.present /\ dec.key.value = "completed"
        /\ dec.key.ttl = DecTtl * 24 - dec.doneAge

\* C25: after the wrapped function returned normally its key is stamped
\* "completed" with a TTL of ttl_seconds * 24 counted from the completion,
\* and every call with the same key during that period is skipped without
\* running the function.
C25_CompletedKeyHeld ==
    /\ []C25_KeyHeld
    /\ [][CompletedRecently => CallsAreSkipped]_vars

\* C25 witness: a call was skipped during the last tick of the completed
\* period, i.e. later than ttl_seconds after the completion.
C25_Witness ==
    /\ dec.note = "skipAfterCompleted"
    /\ dec.doneAge = DecTtl * 24 - 1
    /\ \E w \in Callers : dec.pc[w] = "skipped"

\* C26: at no time are two executions of the wrapped function for the same
\* task name and key in progress.
C26_NoTwoExecutions ==
    Cardinality({w \in Callers : dec.pc[w] = "running"}) <= 1

\* C27: when the wrapped function raises, the pending key is left as it is
\* (neither cleared nor marked completed), and a retry before ttl_seconds
\* have elapsed since the key was written is skipped without running the
\* function.
C27_RaiseLeavesPendingKey ==
    /\ [](\A w \in Callers : RaisedRecently(w) => dec.key.present)
    /\ [][(\E w \in Callers : dec.pc[w] = "running" /\ dec'.pc[w] = "raised")
              => dec'.key = dec.key]_vars
    /\ [][(\E w \in Callers : RaisedRecently(w)) => CallsAreSkipped]_vars

\* C27 witness: a retry was skipped after a caller had raised, the pending
\* key still holding "1".
C27_Witness ==
    /\ dec.note = "skipAfterRaise"
    /\ dec.key.present /\ dec.key.value = "1"
    /\ \E w \in Callers : dec.pc[w] = "raised"
    /\ \E w \in Callers : dec.pc[w] = "skipped"

(***************************************************************************)
(* check_rate_limit across endpoints and limiter instances: one client     *)
(* whose requests are handled one after the other, each by one of the      *)
(* three pre-configured limiters, all on the same store.                   *)
(***************************************************************************)

\* standard_limiter, strict_limiter, permissive_limiter.
Limiters == {"standard", "strict", "permissive"}

\* requests_per_minute of the instance (60, 10, 120), scaled to 2, 1, 3.
PerMinute(limiter) ==
    IF limiter = "strict" THEN 1
    ELSE IF limiter = "standard" THEN RequestsPerMinute ELSE 3

\* requests_per_hour of the instance (1000, 100, 2000), scaled to 3, 2, 4.
PerHour(limiter) ==
    IF limiter = "strict" THEN 2
    ELSE IF limiter = "standard" THEN RequestsPerHour ELSE 4

\* The model stops the clock of this store one tick after a block flag set
\* at the start has expired.
MaxBlTicks == BlockTtl + 1

\* Requests the client sends in one run.
MaxServed == 5

\* block_key = f"ratelimit:block:{client_id}": one key per client, whatever
\* the endpoint and the limiter.
BlockKeyPerEndpoint(e) == e

BlockKey(e) == "client"

\* minute_key and hour_key: f"ratelimit:{endpoint}:minute:{client_id}".
CounterKey(e) == e

BlockKeys == {BlockKey(e) : e \in Endpoints} \cup {BlockKeyPerEndpoint(e) : e \in Endpoints}

BlNoRequest == [n |-> 0, out |-> "none", e |-> "none", limiter |-> "none"]

BlParkedValue ==
    [pc |-> "parked",
     minute |-> [k \in Endpoints |-> RLAbsent],
     hour |-> [k \in Endpoints |-> RLAbsent],
     block |-> [k \in BlockKeys |-> RLAbsent],
     now |-> 0, last |-> BlNoRequest]

BlParked == bl = BlParkedValue

BlInit == bl = [BlParkedValue EXCEPT !.pc = "serving"]

\* check_rate_limit(request, endpoint) of one limiter instance, from the
\* block lookup to its return or its HTTPException.
CheckRateLimit(limiter, e) ==
    /\ bl.pc = "serving"
    /\ bl.last.n < MaxServed
    /\ LET seen == [n |-> bl.last.n + 1, out |-> "429blocked", e |-> e,
                    limiter |-> limiter]
           mk == Incr(bl.minute[CounterKey(e)])
           hk == Incr(bl.hour[CounterKey(e)])
           counted == [bl EXCEPT
                         !.minute[CounterKey(e)] =
                             IF mk.val = 1 THEN Expire(mk, MinuteTtl) ELSE mk,
                         !.hour[CounterKey(e)] =
                             IF hk.val = 1 THEN Expire(hk, HourTtl) ELSE hk]
       IN bl' = IF IsBlocked(bl.block[BlockKey(e)])
                THEN [bl EXCEPT !.last = seen]
                ELSE IF mk.val > PerMinute(limiter)
                THEN [counted EXCEPT !.block[BlockKey(e)] = SetexBlocked(BlockTtl),
                                     !.last = [seen EXCEPT !.out = "429minute"]]
                ELSE IF hk.val > PerHour(limiter)
                THEN [counted EXCEPT !.last = [seen EXCEPT !.out = "429hour"]]
                ELSE [counted EXCEPT !.last = [seen EXCEPT !.out = "ok"]]
    /\ UNCHANGED nonBlVars

\* 30 seconds pass: expiries count down, expired keys are deleted.
BlTick ==
    /\ bl.pc = "serving"
    /\ bl.now < MaxBlTicks
    /\ bl' = [bl EXCEPT !.now = @ + 1,
                        !.minute = [k \in Endpoints |-> Aged(bl.minute[k])],
                        !.hour = [k \in Endpoints |-> Aged(bl.hour[k])],
                        !.block = [k \in BlockKeys |-> Aged(bl.block[k])]]
    /\ UNCHANGED nonBlVars

BlNext ==
    \/ \E limiter \in Limiters, e \in Endpoints : CheckRateLimit(limiter, e)
    \/ BlTick

\* The client's block flag is set.
ClientBlocked == \E k \in BlockKeys : bl.block[k].val # 0

\* A request is handled in this step.
RequestHandled == bl'.last.n # bl.last.n

\* C29: the block flag is keyed by the client only: once the client went over
\* the per-minute cap on one endpoint, each of its requests, to any endpoint
\* and through any limiter instance, is rejected until the flag expires, even
\* where its counters are below the caps; such a rejected request changes
\* neither the counters nor the remaining block time.
C29_BlockIsPerClient ==
    /\ [][(RequestHandled /\ bl'.last.out = "429minute") =>
              (\A k \in BlockKeys : bl'.block[k].val # 0 => bl'.block[k].ttl = BlockTtl)
              /\ \E k \in BlockKeys : bl'.block[k].val # 0]_vars
    /\ [][(RequestHandled /\ ClientBlocked) =>
              /\ bl'.last.out = "429blocked"
              /\ bl'.minute = bl.minute /\ bl'.hour = bl.hour
              /\ bl'.block = bl.block]_vars
    /\ [][(RequestHandled /\ bl'.last.out = "429blocked") => ClientBlocked]_vars

\* C29 witness: the client was blocked on POST:/reports/generate; later, with
\* the flag still set, its request to GET:/reports/history through the
\* permissive limiter was rejected although that endpoint has no counter.
C29_Witness ==
    /\ bl.last.out = "429blocked"
    /\ bl.last.e = "GET:/reports/history" /\ bl.last.limiter = "permissive"
    /\ bl.minute["GET:/reports/history"].val = 0
    /\ bl.minute["POST:/reports/generate"].val > 0
    /\ bl.block[BlockKey("GET:/reports/history")].val # 0
    /\ bl.block[BlockKey("GET:/reports/history")].ttl < BlockTtl

(***************************************************************************)
(* Specifications                                                          *)
(***************************************************************************)

InitIdem == IdemInit /\ MinersParked /\ TaskParked /\ RLParked /\ GrParked /\ RecParked /\ HsParked /\ BatchParked /\ EpParked /\ SelParked /\ PdParked /\ KvParked /\ PmParked /\ DecParked /\ BlParked

SpecIdem == InitIdem /\ [][IdemNext]_vars

InitMiners == MinersInit /\ IdemParked /\ TaskParked /\ RLParked /\ GrParked /\ RecParked /\ HsParked /\ BatchParked /\ EpParked /\ SelParked /\ PdParked /\ KvParked /\ PmParked /\ DecParked /\ BlParked

SpecMiners == InitMiners /\ [][MinersNext]_vars

InitTask == TaskInit /\ IdemParked /\ MinersParked /\ RLParked /\ GrParked /\ RecParked /\ HsParked /\ BatchParked /\ EpParked /\ SelParked /\ PdParked /\ KvParked /\ PmParked /\ DecParked /\ BlParked

SpecTask == InitTask /\ [][TaskNext]_vars

InitRL == RLInit /\ IdemParked /\ MinersParked /\ TaskParked /\ GrParked /\ RecParked /\ HsParked /\ BatchParked /\ EpParked /\ SelParked /\ PdParked /\ KvParked /\ PmParked /\ DecParked /\ BlParked

SpecRL == InitRL /\ [][RLNext]_vars

SpecRLFault == InitRL /\ [][RLFaultNext]_vars

InitReport == GrInit /\ IdemParked /\ MinersParked /\ TaskParked /\ RLParked /\ RecParked /\ HsParked /\ BatchParked /\ EpParked /\ SelParked /\ PdParked /\ KvParked /\ PmParked /\ DecParked /\ BlParked

SpecReport == InitReport /\ [][GrNext]_vars

InitRecs == RecInit /\ IdemParked /\ MinersParked /\ TaskParked /\ RLParked /\ GrParked /\ HsParked /\ BatchParked /\ EpParked /\ SelParked /\ PdParked /\ KvParked /\ PmParked /\ DecParked /\ BlParked

SpecRecs == InitRecs /\ [][RecNext]_vars

InitHistory == HsInit /\ IdemParked /\ MinersParked /\ TaskParked /\ RLParked /\ GrParked /\ RecParked /\ BatchParked /\ EpParked /\ SelParked /\ PdParked /\ KvParked /\ PmParked /\ DecParked /\ BlParked

SpecHistory == InitHistory /\ [][HsNext]_vars

InitBatch == BatchInit /\ IdemParked /\ MinersParked /\ TaskParked /\ RLParked /\ GrParked /\ RecParked /\ HsParked /\ EpParked /\ SelParked /\ PdParked /\ KvParked /\ PmParked /\ DecParked /\ BlParked

SpecBatch == InitBatch /\ [][BatchNext]_vars

\* The event loop runs every coroutine that can run.
SpecBatchFair == SpecBatch /\ WF_vars(BatchNext)

InitEndpoint == EpInit /\ IdemParked /\ MinersParked /\ TaskParked /\ RLParked /\ GrParked /\ RecParked /\ HsParked /\ BatchParked /\ SelParked /\ PdParked /\ KvParked /\ PmParked /\ DecParked /\ BlParked

SpecEndpoint == InitEndpoint /\ [][EpNext]_vars

InitSelector == SelInit /\ IdemParked /\ MinersParked /\ TaskParked /\ RLParked /\ GrParked /\ RecParked /\ HsParked /\ BatchParked /\ EpParked /\ PdParked /\ KvParked /\ PmParked /\ DecParked /\ BlParked

SpecSelector == InitSelector /\ [][SelNext]_vars

InitPeriod == PdInit /\ IdemParked /\ MinersParked /\ TaskParked /\ RLParked /\ GrParked /\ RecParked /\ HsParked /\ BatchParked /\ EpParked /\ SelParked /\ KvParked /\ PmParked /\ DecParked /\ BlParked

SpecPeriod == InitPeriod /\ [][PdNext]_vars

InitVariation == KvInit /\ IdemParked /\ MinersParked /\ TaskParked /\ RLParked /\ GrParked /\ RecParked /\ HsParked /\ BatchParked /\ EpParked /\ SelParked /\ PdParked /\ PmParked /\ DecParked /\ BlParked

SpecVariation == InitVariation /\ [][KvNext]_vars

InitMargin == PmInit /\ IdemParked /\ MinersParked /\ TaskParked /\ RLParked /\ GrParked /\ RecParked /\ HsParked /\ BatchParked /\ EpParked /\ SelParked /\ PdParked /\ KvParked /\ DecParked /\ BlParked

SpecMargin == InitMargin /\ [][PmNext]_vars

InitDecorator == DecInit /\ IdemParked /\ MinersParked /\ TaskParked /\ RLParked /\ GrParked /\ RecParked /\ HsParked /\ BatchParked /\ EpParked /\ SelParked /\ PdParked /\ KvParked /\ PmParked /\ BlParked

SpecDecorator == InitDecorator /\ [][DecNext]_vars

InitBlock == BlInit /\ IdemParked /\ MinersParked /\ TaskParked /\ RLParked /\ GrParked /\ RecParked /\ HsParked /\ BatchParked /\ EpParked /\ SelParked /\ PdParked /\ KvParked /\ PmParked /\ DecParked

SpecBlock == InitBlock /\ [][BlNext]_vars

=============================================================================
